---- MODULE Spec2Model ----
(***************************************************************************)
(* Agentic chatbot orchestration core: the tool visibility gate, the tool  *)
(* planner's reply parsing, the plan filter (lib/agent.js) and the POST    *)
(* handler of the chatbot route with its timeout, nudge re-run and         *)
(* narration call (app/api/chatbot/route.js).                              *)
(*                                                                         *)
(* Strings are sequences of one-character strings, so that the regular     *)
(* expressions of the source are modelled by what they match.              *)
(***************************************************************************)
EXTENDS Integers, Sequences, FiniteSets, TLC

(***************************************************************************)
(* Characters and strings                                                  *)
(***************************************************************************)
UpperAlpha == <<"A","B","C","D","E","F","G","H","I","J","K","L","M",
                "N","O","P","Q","R","S","T","U","V","W","X","Y","Z">>
LowerAlpha == <<"a","b","c","d","e","f","g","h","i","j","k","l","m",
                "n","o","p","q","r","s","t","u","v","w","x","y","z">>
DigitChars == <<"0","1","2","3","4","5","6","7","8","9">>

Range(s) == {s[i] : i \in DOMAIN s}

\* String.prototype.toLowerCase on one character
LowerChar(c) ==
    IF c \in Range(UpperAlpha)
    THEN LowerAlpha[CHOOSE i \in DOMAIN UpperAlpha : UpperAlpha[i] = c]
    ELSE c

\* String.prototype.toLowerCase
ToLowerCase(s) == [i \in DOMAIN s |-> LowerChar(s[i])]

\* the regular expression class \s, on the characters the model uses
IsSpace(c) == c \in {" ", "\t", "\n"}

\* the regular expression class \w
IsWordChar(c) ==
    c \in Range(UpperAlpha) \cup Range(LowerAlpha) \cup Range(DigitChars) \cup {"_"}

\* String.prototype.trim
TrimStart(s) ==
    IF \A i \in DOMAIN s : IsSpace(s[i]) THEN <<>>
    ELSE SubSeq(s, CHOOSE i \in DOMAIN s :
                       /\ ~IsSpace(s[i])
                       /\ \A j \in 1..(i-1) : IsSpace(s[j]), Len(s))
TrimEnd(s) ==
    IF \A i \in DOMAIN s : IsSpace(s[i]) THEN <<>>
    ELSE SubSeq(s, 1, CHOOSE i \in DOMAIN s :
                          /\ ~IsSpace(s[i])
                          /\ \A j \in (i+1)..Len(s) : IsSpace(s[j]))
Trim(s) == TrimEnd(TrimStart(s))

\* a case-insensitive literal of a regular expression, matched at position i:
\* TRUE when s[i .. i+Len(lit)-1] is lit up to case
LitAt(s, i, lit) ==
    /\ i >= 1
    /\ i + Len(lit) - 1 <= Len(s)
    /\ \A k \in 1..Len(lit) : LowerChar(s[i + k - 1]) = lit[k]

\* String.prototype.includes
Includes(s, lit) ==
    \E i \in 1..(Len(s) + 1) :
        /\ i + Len(lit) - 1 <= Len(s)
        /\ \A k \in 1..Len(lit) : s[i + k - 1] = lit[k]

(***************************************************************************)
(* lib/agent.js: the regular expressions                                   *)
(***************************************************************************)
\* the alternatives of WRITE_NAME_RE that are plain literals
WriteLiterals ==
    { <<"i","n","s","e","r","t">>, <<"u","p","d","a","t","e">>,
      <<"d","e","l","e","t","e">>, <<"d","r","o","p">>,
      <<"w","r","i","t","e">>, <<"b","u","l","k">>,
      <<"m","e","r","g","e">>, <<"o","u","t">> }

\* the alternative create[-_ ]?index of WRITE_NAME_RE, its optional
\* separator expanded
CreateIndexLiterals ==
    { <<"c","r","e","a","t","e">> \o sep \o <<"i","n","d","e","x">> :
        sep \in { <<>>, <<"-">>, <<"_">>, <<" ">> } }

\* a literal matched case-insensitively against the end of s (the $ anchor)
EndsWithLit(s, lit) ==
    /\ Len(lit) <= Len(s)
    /\ LitAt(s, Len(s) - Len(lit) + 1, lit)

\* mutant: the pattern without its $ anchor, matching anywhere in the name
WRITE_NAME_RE_Unanchored(name) ==
    \E lit \in WriteLiterals \cup CreateIndexLiterals :
        \E i \in 1..Len(name) : LitAt(name, i, lit)

\* WRITE_NAME_RE.test(name):
\* /(insert|update|delete|create[-_ ]?index|drop|write|bulk|merge|out)$/i
WRITE_NAME_RE(name) ==
    \E lit \in WriteLiterals \cup CreateIndexLiterals : EndsWithLit(name, lit)

\* /confirm:\s*(true|yes)/i .test(query): the scan the regular expression
\* engine makes, position by position; after "confirm:" the greedy \s* run
\* is skipped (backtracking cannot help: true and yes start with no space)
SkipSpaces(s, i) ==
    IF \A j \in i..Len(s) : IsSpace(s[j]) THEN Len(s) + 1
    ELSE CHOOSE j \in i..Len(s) :
             /\ ~IsSpace(s[j])
             /\ \A k \in i..(j-1) : IsSpace(s[k])

ConfirmLit == <<"c","o","n","f","i","r","m",":">>

CONFIRM_RE(q) ==
    \E i \in 1..Len(q) :
        /\ LitAt(q, i, ConfirmLit)
        /\ LET j == SkipSpaces(q, i + Len(ConfirmLit))
           IN \/ LitAt(q, j, <<"t","r","u","e">>)
              \/ LitAt(q, j, <<"y","e","s">>)

\* the keywords of looksDbRelated's regular expression
DbKeywords ==
    { <<"d","b">>, <<"d","a","t","a","b","a","s","e">>,
      <<"c","o","l","l","e","c","t","i","o","n">>,
      <<"c","o","l","l","e","c","t","i","o","n","s">>,
      <<"f","i","n","d">>, <<"a","g","g","r","e","g","a","t","e">>,
      <<"c","o","u","n","t">>, <<"i","n","d","e","x">>,
      <<"i","n","d","e","x","e","s">>, <<"s","c","h","e","m","a">>,
      <<"s","t","a","t","s">>, <<"l","o","g">>, <<"l","o","g","s">>,
      <<"e","x","p","l","a","i","n">>,
      <<"c","o","l","l","s","t","a","t","s">>,
      <<"s","t","o","r","a","g","e"," ","s","i","z","e">>,
      <<"s","i","z","e"," ","o","n"," ","d","i","s","k">>,
      <<"p","e","r","f">>,
      <<"p","e","r","f","o","r","m","a","n","c","e">>,
      <<"m","o","n","g","o","d","b">> }

\* \b before position i and after position j of s, for a match s[i..j] that
\* starts and ends with a word character
WordBoundaryAround(s, i, j) ==
    /\ (i = 1 \/ ~IsWordChar(s[i - 1]))
    /\ (j = Len(s) \/ ~IsWordChar(s[j + 1]))

\* looksDbRelated(q): /\b(db|database|...|mongodb)\b/i .test(q)
looksDbRelated(q) ==
    \E kw \in DbKeywords : \E i \in 1..Len(q) :
        /\ LitAt(q, i, kw)
        /\ WordBoundaryAround(q, i, i + Len(kw) - 1)

(***************************************************************************)
(* JavaScript values                                                       *)
(***************************************************************************)
Undefined == [t |-> "undefined"]

\* a plain object ({} or an object literal) with the own properties of `own`,
\* a function from property names to values; its prototype is Object.prototype
Obj(own) == [t |-> "object", own |-> own]

EmptyOwn == [n \in {} |-> Undefined]

\* the descriptor the tool provider supplies for a tool
ToolDef(name) == [t |-> "tool", of |-> name]

N_constructor == <<"c","o","n","s","t","r","u","c","t","o","r">>
N_toString    == <<"t","o","S","t","r","i","n","g">>
N_proto       == <<"_","_","p","r","o","t","o","_","_">>

\* property names every plain object inherits from Object.prototype
\* (the ones the model's inputs use)
ProtoNames == { N_constructor, N_toString, N_proto }

Builtin(name) == [t |-> "builtin", of |-> name]

OwnKeys(o) == DOMAIN o.own

\* the member expression o[k] on an object: the own property, else the
\* property inherited from Object.prototype, else undefined
Get(o, k) ==
    IF k \in OwnKeys(o) THEN o.own[k]
    ELSE IF k \in ProtoNames THEN Builtin(k)
    ELSE Undefined

\* the assignment o[k] = v on a plain object: __proto__ is an accessor that
\* replaces the prototype and creates no own property
Put(o, k, v) ==
    IF k = N_proto THEN o
    ELSE Obj([n \in OwnKeys(o) \cup {k} |-> IF n = k THEN v ELSE o.own[n]])

Truthy(v) == v.t \in {"object", "tool", "builtin"}

\* what an expression evaluates to: a value, or a thrown exception
Return(v) == [thrown |-> FALSE, v |-> v]
Throw(name) == [thrown |-> TRUE, v |-> [t |-> "error", name |-> name]]

(***************************************************************************)
(* lib/agent.js: buildToolSet, filterTools                                 *)
(***************************************************************************)
\* Object.entries(allTools || {}) keys
EntriesKeys(allTools) == IF allTools.t = "object" THEN OwnKeys(allTools) ELSE {}

\* buildToolSet(allTools, query); query is a string
buildToolSet(allTools, query) ==
    LET confirmed == CONFIRM_RE(query)
        keep == {name \in EntriesKeys(allTools) : ~WRITE_NAME_RE(name)}
    IN IF confirmed THEN allTools
       ELSE Obj([name \in keep |-> allTools.own[name]])

\* the loop of filterTools over allowList[i..]: filtered after the loop
RECURSIVE FilterLoop(_, _, _, _)
FilterLoop(all, allowList, i, filtered) ==
    IF i > Len(allowList) THEN filtered
    ELSE LET k == allowList[i]
         IN FilterLoop(all, allowList, i + 1,
                       IF Truthy(Get(all, k)) THEN Put(filtered, k, Get(all, k))
                       ELSE filtered)

\* filterTools(all, allowList); allowList is Undefined or an array of names
filterTools(all, allowList) ==
    IF allowList.t = "undefined" \/ Len(allowList.items) = 0 THEN Return(all)
    ELSE IF all.t = "undefined" THEN Throw("TypeError")
    ELSE LET filtered == FilterLoop(all, allowList.items, 1, Obj(EmptyOwn))
         IN IF Cardinality(OwnKeys(filtered)) # 0 THEN Return(filtered)
            ELSE Return(all)

Arr(items) == [t |-> "array", items |-> items]

(***************************************************************************)
(* lib/agent.js: planTools, the handling of the reply text                 *)
(*                                                                         *)
(* A reply text is ReplyEmpty (the empty string), ReplyProse (a text that  *)
(* is not JSON) or ReplyJson(v), the JSON text of the value v.  JSON       *)
(* values: JNull, JNum(n), JStr(s), JArr(items), JObj(fields).             *)
(***************************************************************************)
JNull == [t |-> "null"]
JNum(n) == [t |-> "number", n |-> n]
JStr(s) == [t |-> "string", s |-> s]
JArr(items) == [t |-> "array", items |-> items]
JObj(fields) == [t |-> "object", own |-> fields]

ReplyEmpty == [k |-> "empty"]
ReplyProse == [k |-> "prose"]
ReplyJson(v) == [k |-> "json", v |-> v]

\* JSON.parse(text || '{}')
JSONParseOrEmpty(text) ==
    CASE text.k = "empty" -> Return(JObj(EmptyOwn))
      [] text.k = "prose" -> Throw("SyntaxError")
      [] text.k = "json"  -> Return(text.v)

\* truthiness of a JSON value
JTruthy(v) ==
    CASE v.t = "undefined" -> FALSE
      [] v.t = "null"      -> FALSE
      [] v.t = "number"    -> v.n # 0
      [] v.t = "string"    -> Len(v.s) # 0
      [] OTHER             -> TRUE

\* String(n) of a small non-negative integer
RECURSIVE NumberToString(_)
NumberToString(n) ==
    IF n < 10 THEN <<DigitChars[n + 1]>>
    ELSE NumberToString(n \div 10) \o <<DigitChars[(n % 10) + 1]>>

\* String(v) of a JSON value that is a name candidate
JString(v) ==
    CASE v.t = "string" -> v.s
      [] v.t = "number" -> NumberToString(v.n)
      [] v.t = "array"  -> <<>>
      [] OTHER          -> <<"[","o","b","j","e","c","t"," ",
                             "O","b","j","e","c","t","]">>

\* the member expression v.key on a parsed JSON value that is not null:
\* own fields of objects; primitives and arrays have no such field
JField(v, key) ==
    IF v.t = "object" /\ key \in DOMAIN v.own THEN v.own[key] ELSE Undefined

\* (t) => (t && t.name ? String(t.name) : '')
PlanEntryName(t) ==
    IF JTruthy(t) /\ JTruthy(JField(t, "name")) THEN JString(JField(t, "name"))
    ELSE <<>>

\* [...new Set(chosen)]: first occurrences, in order
RECURSIVE Dedupe(_)
Dedupe(s) ==
    IF Len(s) = 0 THEN <<>>
    ELSE LET init == Dedupe(SubSeq(s, 1, Len(s) - 1))
             last == s[Len(s)]
         IN IF last \in Range(init) THEN init ELSE Append(init, last)

\* .filter((n) => n && tools[n]) over names[i..]; tools is an object
RECURSIVE PlanFilterNames(_, _)
PlanFilterNames(names, tools) ==
    IF Len(names) = 0 THEN <<>>
    ELSE LET n == names[1]
             rest == PlanFilterNames(Tail(names), tools)
         IN IF Len(n) # 0 /\ Truthy(Get(tools, n)) THEN <<n>> \o rest ELSE rest

\* the try block of planTools on the reply text: the array of names returned
PlanParse(text, tools) ==
    LET parsed == JSONParseOrEmpty(text)
    IN IF parsed.thrown THEN <<>>                      \* catch: return []
       ELSE LET plan == parsed.v
            IN IF plan.t = "null" THEN <<>>            \* plan.tools throws
               ELSE LET pt == JField(plan, "tools")
                        arr == IF JTruthy(pt) THEN pt ELSE JArr(<<>>)
                    IN IF arr.t # "array" THEN <<>>    \* .map is not a function
                       ELSE LET names == [i \in DOMAIN arr.items |->
                                             PlanEntryName(arr.items[i])]
                                wanted == {i \in DOMAIN names : Len(names[i]) # 0}
                            IN IF wanted # {} /\ tools.t = "undefined"
                               THEN <<>>               \* tools[n] throws
                               ELSE IF wanted = {} THEN <<>>
                               ELSE Dedupe(PlanFilterNames(names, tools))

(***************************************************************************)
(* Inputs                                                                  *)
(***************************************************************************)
MaxTools == 4       \* tool names a catalog draws from
MaxPlanLen == 2     \* entries of a plan array, names of an allow list

N_list_databases == <<"l","i","s","t","-","d","a","t","a","b","a","s","e","s">>
N_drop_database  == <<"d","r","o","p","-","d","a","t","a","b","a","s","e">>
N_create_index   == <<"m","o","n","g","o",".","c","r","e","a","t","e","-","i","n","d","e","x">>
N_users_DELETE   == <<"u","s","e","r","s",".","D","E","L","E","T","E">>
N_find           == <<"f","i","n","d">>
N_checkout       == <<"c","h","e","c","k","o","u","t">>
N_nonexistent    == <<"n","o","n","e","x","i","s","t","e","n","t">>

ToolUniverse ==
    << N_list_databases, N_drop_database, N_create_index, N_users_DELETE,
       N_find, N_checkout >>

ToolNames == {ToolUniverse[i] : i \in 1..MaxTools}

\* the catalogs a tool provider can supply: a mapping name -> descriptor
Catalogs == {Obj([n \in c |-> ToolDef(n)]) : c \in SUBSET ToolNames}

\* names a planner reply or an allow list can carry: real tools, a name of
\* no tool, and names every object inherits
PlanNames == ToolNames \cup {N_nonexistent} \cup ProtoNames

Q_list     == <<"l","i","s","t"," ","d","a","t","a","b","a","s","e","s">>
Q_delete   == <<"d","e","l","e","t","e"," ","a","l","l"," ","u","s","e","r","s",",",
                " ","c","o","n","f","i","r","m",":"," ","t","r","u","e">>
Q_count    == <<"c","o","u","n","t"," ","u","s","e","r","s">>
Q_CONFIRM  == <<"f","i","n","d"," ","x"," ","C","O","N","F","I","R","M",":","Y","E","S">>
Q_nocolon  == <<"d","r","o","p"," ","d","b"," ","c","o","n","f","i","r","m"," ","t","r","u","e">>
Q_confirmno == <<"c","o","n","f","i","r","m",":"," "," ","n","o">>
Q_hi       == <<"h","i">>
Q_discount == <<"d","i","s","c","o","u","n","t","s","?">>

\* query texts, already trimmed
Queries ==
    { Q_list, Q_delete, Q_count, Q_CONFIRM, Q_nocolon, Q_confirmno, Q_hi,
      Q_discount }

\* sequences over S of length at most n
SeqsUpTo(S, n) == UNION {[1..k -> S] : k \in 0..n}

AllowLists == {Undefined} \cup {Arr(l) : l \in SeqsUpTo(PlanNames, MaxPlanLen)}

\* the entries a plan's "tools" array can hold
PlanEntries ==
    { JNull, JStr(N_find), JObj([why |-> JStr(Q_hi)]),
      JObj([name |-> JStr(<<>>)]), JObj([name |-> JNum(0)]),
      JObj([name |-> JNum(7)]) }
    \cup {JObj([name |-> JStr(n)]) : n \in PlanNames}

\* the values of a plan object's "tools" field
PlanToolsFields ==
    { JNull, JNum(5), JStr(N_find), JObj(EmptyOwn) }
    \cup {JArr(l) : l \in SeqsUpTo(PlanEntries, MaxPlanLen)}

\* the reply texts of the planning call
Replies ==
    { ReplyEmpty, ReplyProse }
    \cup {ReplyJson(v) : v \in { JNull, JNum(5), JStr(N_find), JObj(EmptyOwn),
                                 JArr(<<JObj([name |-> JStr(N_find)])>>) }}
    \cup {ReplyJson(JObj([tools |-> f])) : f \in PlanToolsFields}

(***************************************************************************)
(* app/api/chatbot/route.js: helpers and inputs of one turn                *)
(***************************************************************************)
NaN == [t |-> "NaN"]

\* the decimal value of a string of digits
RECURSIVE DigitsValue(_)
DigitsValue(s) ==
    IF Len(s) = 0 THEN 0
    ELSE 10 * DigitsValue(SubSeq(s, 1, Len(s) - 1))
         + (CHOOSE d \in 0..9 : DigitChars[d + 1] = s[Len(s)])

\* Number(v) of undefined, of a number, and of a string (the empty string is
\* 0, a string of digits its value, any other string NaN)
ToNumber(v) ==
    CASE v.t = "undefined" -> NaN
      [] v.t = "number"    -> v
      [] v.t = "string"    ->
           IF \A i \in DOMAIN v.s : v.s[i] \in Range(DigitChars)
           THEN JNum(DigitsValue(v.s)) ELSE NaN

DEFAULT_TIMEOUT_MS == 45000
CACHED_DEFAULT_TIMEOUT_MS == 30000

\* the variants of the route: "json" (route.js 51-200 and 295-444), "stream"
\* (route.js 516-767), "cached" (the route with the cached MCP client)
Variants == {"json", "stream", "cached"}

\* const timeoutMs = Number(process.env.CHATBOT_RESPONSE_TIMEOUT_MS || d),
\* and Number(process.env.CHATBOT_RESPONSE_TIMEOUT_MS) in the stream variant
TimeoutMs(v, env) ==
    CASE v = "json"   -> IF JTruthy(env) THEN ToNumber(env) ELSE JNum(DEFAULT_TIMEOUT_MS)
      [] v = "stream" -> ToNumber(env)
      [] v = "cached" -> IF JTruthy(env) THEN ToNumber(env)
                         ELSE JNum(CACHED_DEFAULT_TIMEOUT_MS)

\* the delay setTimeout(fn, ms) arms: Node coerces a delay that is NaN, below
\* 1 or above 2^31-1 to 1 millisecond
SetTimeoutDelay(ms) ==
    IF ms.t = "NaN" THEN 1
    ELSE IF ms.n < 1 \/ ms.n > 2147483647 THEN 1
    ELSE ms.n

\* the values of process.env.CHATBOT_RESPONSE_TIMEOUT_MS: unset, "", "10", "abc"
EnvValues == { Undefined, JStr(<<>>), JStr(<<"1","0">>), JStr(<<"a","b","c">>) }

\* the instants (milliseconds since the timer was armed) the clock visits
TimePoints == <<0, 1, 10, 30000, 45000>>

TimeoutMsg == "Timed out waiting for model/tools"
CachedTimeoutDetails == "Timed out waiting for the model or tools to respond"

\* the errors a collaborator throws on its own: an Error with a message, or
\* with none
OwnErrors == { [name |-> "Error", message |-> "provider failed"],
               [name |-> "Error", message |-> ""] }

\* what a generation call given an aborted signal rejects with
AbortError == [name |-> "AbortError", message |-> "This operation was aborted"]

T_empty == <<>>
T_done  == <<"D","o","n","e",".">>
T_short == <<"3"," ","u","s","e","r","s">>
T_long  == <<"I"," ","f","o","u","n","d"," ","2"," ","d","o","c","u","m","e","n","t","s",".">>

\* the texts a generation call returns
Texts == { T_empty, T_done, T_short, T_long }

F_doc == <<"{","\"","_","i","d","\"",":","1",",","\"","n","\"",":","2","}">>
F_txt == <<"2"," ","r","o","w","s">>

\* tool-result records: one text fragment holding a document, one holding
\* plain text
R_doc == [content |-> <<[type |-> "text", text |-> F_doc]>>]
R_txt == [content |-> <<[type |-> "text", text |-> F_txt]>>]

ToolCall == [type |-> "tool-call"]

\* the (toolCalls, toolResults) pairs a generation call returns with `tools`
\* attached: no tool is called when none is attached, and every tool result
\* answers a tool call
CallOutcomes(tools) ==
    { <<Undefined, Undefined>>, <<Arr(<<>>), Arr(<<>>)>> }
    \cup IF tools.t = "object" /\ OwnKeys(tools) # {}
         THEN { <<Arr(<<ToolCall>>), Arr(<<R_doc>>)>>,
                <<Arr(<<ToolCall>>), Arr(<<R_txt>>)>> }
         ELSE {}

\* the results generateText resolves with when `tools` are attached
Results(tools) ==
    { [text |-> x, toolCalls |-> o[1], toolResults |-> o[2]] :
        x \in Texts, o \in CallOutcomes(tools) }

\* a tool-result record that names its tool: database statistics whose
\* payload is the text null
R_stats == JObj([toolName |-> JStr(<<"d","b","-","s","t","a","t","s">>),
                 result |-> JStr(<<"n","u","l","l">>)])

\* the results the call of a variant resolves with: the cached-client
\* variant is also given the record that names its tool
ResultsOf(v, tools) ==
    Results(tools)
    \cup IF v = "cached" /\ tools.t = "object" /\ OwnKeys(tools) # {}
         THEN { [text |-> x, toolCalls |-> Arr(<<ToolCall>>), toolResults |-> Arr(<<R_stats>>)] :
                  x \in {T_empty, T_long} }
         ELSE {}

\* the request bodies: query missing, not a string, blank, or a text
Q_padded == <<" ">> \o Q_list \o <<" ">>
Bodies ==
    { [query |-> Undefined], [query |-> JNum(5)], [query |-> JStr(<<" "," ">>)] }
    \cup { [query |-> JStr(q)] : q \in {Q_padded, Q_delete, Q_count, Q_CONFIRM} }

\* the planner replies of a turn: no text, prose, and plans naming one tool
TurnPlanNames == {N_list_databases, N_create_index, N_nonexistent, N_constructor}
TurnReplies ==
    { ReplyEmpty, ReplyProse }
    \cup { ReplyJson(JObj([tools |-> JArr(<<JObj([name |-> JStr(n)])>>)])) :
             n \in TurnPlanNames }

\* the catalogs the tool provider supplies in a turn
TurnCatalogs ==
    { Obj([n \in c |-> ToolDef(n)]) :
        c \in { {}, {N_list_databases, N_drop_database},
                {N_list_databases, N_create_index, N_users_DELETE} } }

(***************************************************************************)
(* lib/agent.js: ensureMeaningfulResponse                                  *)
(***************************************************************************)
\* mutant: the list without "okay"
minimalResponses_NoOkay ==
    { <<"d","o","n","e">>, <<"d","o","n","e",".">>, <<"c","o","m","p","l","e","t","e","d">>, <<"f","i","n","i","s","h","e","d">>, <<"o","k">> }

minimalResponses ==
    { <<"d","o","n","e">>, <<"d","o","n","e",".">>, <<"c","o","m","p","l","e","t","e","d">>, <<"f","i","n","i","s","h","e","d">>, <<"o","k">>, <<"o","k","a","y">> }

\* JSON.parse(doc) followed by Object.entries: the fields of a document
\* fragment as <<key, JSON.stringify(value, null, 2)>> pairs, for the
\* fragments the model uses
ParseDocEntries(doc) ==
    IF doc = F_doc
    THEN Return(<< <<<<"_","i","d">>, <<"1">> >>, << <<"n">>, <<"2">> >> >>)
    ELSE Throw("SyntaxError")

RECURSIVE JoinLines(_, _)
JoinLines(parts, sep) ==
    IF Len(parts) = 0 THEN <<>>
    ELSE IF Len(parts) = 1 THEN parts[1]
    ELSE parts[1] \o sep \o JoinLines(Tail(parts), sep)

\* the lines "- key: value\n" of one parsed document, _id left out
RECURSIVE DocFieldLines(_)
DocFieldLines(entries) ==
    IF Len(entries) = 0 THEN <<>>
    ELSE (IF entries[1][1] # <<"_","i","d">>
          THEN <<"-"," ">> \o entries[1][1] \o <<":"," ">> \o entries[1][2] \o <<"\n">>
          ELSE <<>>)
         \o DocFieldLines(Tail(entries))

\* textContent.forEach((doc, i) => ...) over docs[i..]
RECURSIVE RenderDocs(_, _)
RenderDocs(docs, i) ==
    IF i > Len(docs) THEN <<>>
    ELSE LET parsed == ParseDocEntries(docs[i])
         IN (IF parsed.thrown THEN docs[i] \o <<"\n","\n">>
             ELSE <<"*","*","D","o","c","u","m","e","n","t"," ">> \o NumberToString(i) \o <<":","*","*","\n">>
                  \o DocFieldLines(parsed.v) \o <<"\n">>)
            \o RenderDocs(docs, i + 1)

\* content.filter(c => c?.type === 'text' && c?.text).map(c => c.text)
RECURSIVE TextContent(_)
TextContent(content) ==
    IF Len(content) = 0 THEN <<>>
    ELSE (IF content[1].type = "text" /\ Len(content[1].text) # 0
          THEN <<content[1].text>> ELSE <<>>)
         \o TextContent(Tail(content))

\* the fallback one tool result gives, `fallback` when it gives none
ResultFallback(r, fallback) ==
    LET textContent == TextContent(r.content)
        n == Len(textContent)
    IN IF n = 0 THEN fallback
       ELSE IF Includes(textContent[1], <<"\"","_","i","d","\"">>)
       THEN <<"I"," ","f","o","u","n","d"," ">> \o NumberToString(n) \o <<" ","d","o","c","u","m","e","n","t">>
            \o (IF n # 1 THEN <<"s">> ELSE <<>>) \o <<" ","i","n"," ","t","h","e"," ","c","o","l","l","e","c","t","i","o","n","."," ">>
            \o (IF n <= 3
                THEN <<"H","e","r","e"," ","a","r","e"," ","t","h","e"," ","r","e","s","u","l","t","s",":","\n","\n">> \o RenderDocs(textContent, 1)
                ELSE <<"T","h","e"," ","d","o","c","u","m","e","n","t","s"," ","c","o","n","t","a","i","n"," ","v","a","r","i","o","u","s"," ","d","a","t","a","."," ","W","o","u","l","d"," ","y","o","u"," ","l","i","k","e"," ","m","e"," ","t","o"," ","s","h","o","w"," ","s","p","e","c","i","f","i","c"," ","f","i","e","l","d","s"," ","o","r"," ","f","i","l","t","e","r"," ","t","h","e"," ","r","e","s","u","l","t","s","?">>)
       ELSE JoinLines(textContent, <<"\n","\n">>)

\* for (const result of toolResults) over toolResults[i..]
RECURSIVE FallbackLoop(_, _, _)
FallbackLoop(toolResults, i, fallback) ==
    IF i > Len(toolResults) THEN fallback
    ELSE FallbackLoop(toolResults, i + 1, ResultFallback(toolResults[i], fallback))

\* ensureMeaningfulResponse(text, toolResults); toolResults is Undefined or
\* an array of tool-result records
ensureMeaningfulResponse(text, toolResults) ==
    LET isMinimal == Trim(ToLowerCase(text)) \in minimalResponses
    IN IF isMinimal /\ toolResults.t = "array" /\ Len(toolResults.items) > 0
       THEN FallbackLoop(toolResults.items, 1, <<"I","'","v","e"," ","c","o","m","p","l","e","t","e","d"," ","t","h","e"," ","o","p","e","r","a","t","i","o","n","."," ">>)
       ELSE text

(***************************************************************************)
(* route.js: extractBetween (stream variant)                               *)
(***************************************************************************)
\* String.prototype.indexOf: the first position (from 1) of tag in text, 0
\* when there is none (JavaScript: -1)
IndexOf(text, tag) ==
    LET hits == {i \in 1..Len(text) :
                    /\ i + Len(tag) - 1 <= Len(text)
                    /\ SubSeq(text, i, i + Len(tag) - 1) = tag}
    IN IF hits = {} THEN 0 ELSE CHOOSE i \in hits : \A j \in hits : i <= j

Null == [t |-> "null"]

\* extractBetween(text, startTag, endTag): a string value, or null
extractBetween(text, startTag, endTag) ==
    LET start == IndexOf(text, startTag)
        end == IndexOf(text, endTag)
    IN IF start # 0 /\ end # 0 /\ end > start
       THEN JStr(Trim(SubSeq(text, start + Len(startTag), end - 1)))
       ELSE Null

TAG_REASONING_OPEN  == <<"<","R","E","A","S","O","N","I","N","G",">">>
TAG_REASONING_CLOSE == <<"<","/","R","E","A","S","O","N","I","N","G",">">>
TAG_CONTENT_OPEN    == <<"<","C","O","N","T","E","N","T",">">>
TAG_CONTENT_CLOSE   == <<"<","/","C","O","N","T","E","N","T",">">>

(***************************************************************************)
(* humanBytes (lib/agent.js)                                               *)
(*                                                                         *)
(* A byte count is written in base 1024, least significant digit first,    *)
(* with no leading zero: dividing by 1024 moves one digit behind the       *)
(* point, and every count below 2^53 and every quotient is exact in a      *)
(* double, as it is here.                                                  *)
(***************************************************************************)
KIB == 1024

\* const units
UNITS == << <<"b","y","t","e","s">>, <<"K","B">>, <<"M","B">>, <<"G","B">>, <<"T","B">> >>

\* mutant: val > 1024
ValAtLeastKib_Strict(int, frac) ==
    \/ \E i \in DOMAIN int : i >= 3 /\ int[i] > 0
    \/ /\ Len(int) >= 2
       /\ \/ int[2] > 1
          \/ int[1] > 0
          \/ \E i \in DOMAIN frac : frac[i] > 0

\* val >= 1024, val being int (least significant digit first) followed by
\* the fraction frac (most significant digit first)
ValAtLeastKib(int, frac) == \E i \in DOMAIN int : i >= 2 /\ int[i] > 0

\* while (val >= 1024 && idx < units.length - 1) { val /= 1024; idx++; }
RECURSIVE UnitLoop(_, _, _)
UnitLoop(int, frac, idx) ==
    IF ValAtLeastKib(int, frac) /\ idx < Len(UNITS) - 1
    THEN UnitLoop(Tail(int), <<Head(int)>> \o frac, idx + 1)
    ELSE [int |-> int, frac |-> frac, idx |-> idx]

\* the value of base-1024 digits, least significant first
RECURSIVE DigitsOfKibValue(_)
DigitsOfKibValue(int) ==
    IF int = <<>> THEN 0 ELSE Head(int) + KIB * DigitsOfKibValue(Tail(int))

\* a base-1024 fraction times 100: the integer part and the fraction left
RECURSIVE Times100(_)
Times100(frac) ==
    IF frac = <<>> THEN [carry |-> 0, frac |-> <<>>]
    ELSE LET r == Times100(Tail(frac))
             t == Head(frac) * 100 + r.carry
         IN [carry |-> t \div KIB, frac |-> <<t % KIB>> \o r.frac]

\* val.toFixed(2): the hundredths nearest to val, the larger when two are
\* equally near
ToFixed2(int, frac) ==
    LET m == Times100(frac)
        up == IF m.frac # <<>> /\ m.frac[1] >= KIB \div 2 THEN 1 ELSE 0
        h == DigitsOfKibValue(int) * 100 + m.carry + up
    IN NumberToString(h \div 100) \o <<".">>
         \o <<DigitChars[((h % 100) \div 10) + 1], DigitChars[(h % 10) + 1]>>

\* humanBytes(bytes) of a finite, non-negative, whole count
humanBytes(bytes) ==
    LET r == UnitLoop(bytes, <<>>, 0)
    IN ToFixed2(r.int, r.frac) \o <<" ">> \o UNITS[r.idx + 1]

MaxLimbs == 5

\* the digits the counts are made of
LimbValues == {0, 1, KIB - 1}

\* the byte counts humanBytes is given
ByteCounts ==
    UNION { { b \in [1..n -> LimbValues] : n > 1 => b[n] # 0 } : n \in 1..MaxLimbs }

(***************************************************************************)
(* Result normalizer (lib/agent.js): parseListCollections, parseDbStats,   *)
(* toMarkdownTable, formatToolResultsToNaturalLanguage. Tool-result        *)
(* records and payloads are JSON values; the branches modelled are the     *)
(* ones for collection listings, counts and database statistics and the    *)
(* generic sentence, and the tool names used contain the literal of no     *)
(* other branch.                                                           *)
(***************************************************************************)
\* a ?? b
Nullish(a, b) == IF a.t \in {"undefined", "null"} THEN b ELSE a

\* a || b
OrElse(a, b) == IF JTruthy(a) THEN a ELSE b

\* typeof v === 'object' (null included)
TypeofObject(v) == v.t \in {"object", "array", "null"}

\* String(v) of a primitive
StringOf(v) ==
    CASE v.t = "string"    -> v.s
      [] v.t = "number"    -> NumberToString(v.n)
      [] v.t = "null"      -> <<"n","u","l","l">>
      [] v.t = "undefined" -> <<"u","n","d","e","f","i","n","e","d">>

\* JSON.stringify of a string: quoted, with " \ and newline escaped
RECURSIVE JsonEscape(_)
JsonEscape(s) ==
    IF Len(s) = 0 THEN <<>>
    ELSE (CASE s[1] = "\"" -> <<"\\", "\"">>
            [] s[1] = "\\" -> <<"\\", "\\">>
            [] s[1] = "\n" -> <<"\\", "n">>
            [] OTHER       -> <<s[1]>>)
         \o JsonEscape(Tail(s))

JsonQuote(s) == <<"\"">> \o JsonEscape(s) \o <<"\"">>

\* the property names of the objects in use, in the order the objects were
\* built with (JSON.stringify keeps insertion order)
KeyOrder == <<"toolName", "tool", "result", "output", "data", "content", "type", "text", "collections", "name", "count", "objects", "dataSize">>

KeyChars(k) ==
    CASE k = "toolName" -> <<"t","o","o","l","N","a","m","e">>
      [] k = "tool" -> <<"t","o","o","l">>
      [] k = "result" -> <<"r","e","s","u","l","t">>
      [] k = "output" -> <<"o","u","t","p","u","t">>
      [] k = "data" -> <<"d","a","t","a">>
      [] k = "content" -> <<"c","o","n","t","e","n","t">>
      [] k = "type" -> <<"t","y","p","e">>
      [] k = "text" -> <<"t","e","x","t">>
      [] k = "collections" -> <<"c","o","l","l","e","c","t","i","o","n","s">>
      [] k = "name" -> <<"n","a","m","e">>
      [] k = "count" -> <<"c","o","u","n","t">>
      [] k = "objects" -> <<"o","b","j","e","c","t","s">>
      [] k = "dataSize" -> <<"d","a","t","a","S","i","z","e">>

KeysInOrder(own) == SelectSeq(KeyOrder, LAMBDA k : k \in DOMAIN own)

\* JSON.stringify(v)
RECURSIVE Stringify(_)
RECURSIVE StringifyItems(_)
RECURSIVE StringifyFields(_, _)
Stringify(v) ==
    CASE v.t = "null"   -> <<"n","u","l","l">>
      [] v.t = "number" -> NumberToString(v.n)
      [] v.t = "string" -> JsonQuote(v.s)
      [] v.t = "array"  -> <<"[">> \o StringifyItems(v.items) \o <<"]">>
      [] v.t = "object" -> <<"{">> \o StringifyFields(v.own, KeysInOrder(v.own)) \o <<"}">>

StringifyItems(items) ==
    IF Len(items) = 0 THEN <<>>
    ELSE Stringify(items[1]) \o (IF Len(items) > 1 THEN <<",">> ELSE <<>>)
         \o StringifyItems(Tail(items))

StringifyFields(own, keys) ==
    IF Len(keys) = 0 THEN <<>>
    ELSE JsonQuote(KeyChars(keys[1])) \o <<":">> \o Stringify(own[keys[1]])
         \o (IF Len(keys) > 1 THEN <<",">> ELSE <<>>)
         \o StringifyFields(own, Tail(keys))

F_null   == <<"n","u","l","l">>
F_five   == <<"5">>
F_quoted == <<"\"","o","k","\"">>
F_stats  == <<"{","\"","o","b","j","e","c","t","s","\"",":","3","}">>
F_abc    == <<"a","b","c">>

\* JSON.parse(text), for the texts in use
JSONParse(text) ==
    CASE text = F_null   -> Return(JNull)
      [] text = F_quoted -> Return(JStr(<<"o","k">>))
      [] text = F_stats  -> Return(JObj([objects |-> JNum(3)]))
      [] text # <<>> /\ (\A i \in DOMAIN text : text[i] \in Range(DigitChars)) ->
           Return(JNum(DigitsValue(text)))
      [] OTHER -> Throw("SyntaxError")

\* the end of the run of characters other than " that starts at k
EndOfUnquoted(text, k) ==
    IF \A j \in k..Len(text) : text[j] # "\"" THEN Len(text)
    ELSE (CHOOSE j \in k..Len(text) :
             /\ text[j] = "\""
             /\ \A l \in k..(j - 1) : text[l] # "\"") - 1

NameLit == <<"n","a","m","e",":">>

\* /Name:\s*\"?([^\"]+)\"?/i tried at position i: whether it matches, and
\* its group. The greedy \s* run and the optional quote are taken first;
\* when no character other than " follows, the engine gives back one space
\* of the run and the group is that space.
NameGroupAt(text, i) ==
    LET j == i + Len(NameLit)
        k == SkipSpaces(text, j)
        quoted == k <= Len(text) /\ text[k] = "\""
    IN IF ~LitAt(text, i, NameLit) THEN [hit |-> FALSE, g |-> <<>>]
       ELSE IF quoted /\ k + 1 <= Len(text) /\ text[k + 1] # "\""
       THEN [hit |-> TRUE, g |-> SubSeq(text, k + 1, EndOfUnquoted(text, k + 1))]
       ELSE IF k <= Len(text) /\ ~quoted
       THEN [hit |-> TRUE, g |-> SubSeq(text, k, EndOfUnquoted(text, k))]
       ELSE IF k > j
       THEN [hit |-> TRUE, g |-> <<text[k - 1]>>]
       ELSE [hit |-> FALSE, g |-> <<>>]

\* text.match(/Name:\s*\"?([^\"]+)\"?/i): m[1] of the leftmost match, or null
NameMatch(text) ==
    LET starts == {i \in 1..Len(text) : NameGroupAt(text, i).hit}
    IN IF starts = {} THEN Null
       ELSE JStr(NameGroupAt(text, CHOOSE i \in starts : \A l \in starts : i <= l).g)

\* parseListCollections: the loop over colArray
RECURSIVE CollectionItemNames(_)
CollectionItemNames(items) ==
    IF Len(items) = 0 THEN <<>>
    ELSE LET item == items[1]
             candidate == OrElse(OrElse(JField(item, "name"), JField(item, "collection")),
                                 JField(item, "collectionName"))
         IN (IF item.t = "string" THEN <<item.s>>
             ELSE IF JTruthy(item) /\ TypeofObject(item) /\ candidate.t = "string"
             THEN <<candidate.s>>
             ELSE <<>>)
            \o CollectionItemNames(Tail(items))

\* mutant: only the fragments of type text are read
RECURSIVE ContentNames_TextOnly(_)
ContentNames_TextOnly(parts) ==
    IF Len(parts) = 0 THEN <<>>
    ELSE LET text == StringOf(Nullish(JField(parts[1], "text"), JStr(<<>>)))
             m == IF Len(text) = 0 THEN Null ELSE NameMatch(text)
         IN (IF JField(parts[1], "type") = JStr(<<"t","e","x","t">>) /\ m # Null /\ Len(m.s) > 0
             THEN <<Trim(m.s)>> ELSE <<>>)
            \o ContentNames_TextOnly(Tail(parts))

\* parseListCollections: the loop over payload.content
RECURSIVE ContentNames(_)
ContentNames(parts) ==
    IF Len(parts) = 0 THEN <<>>
    ELSE LET text == StringOf(Nullish(Nullish(JField(parts[1], "text"),
                                              JField(parts[1], "content")), JStr(<<>>)))
             m == IF Len(text) = 0 THEN Null ELSE NameMatch(text)
         IN (IF m # Null /\ Len(m.s) > 0 THEN <<Trim(m.s)>> ELSE <<>>)
            \o ContentNames(Tail(parts))

parseListCollections(payload) ==
    IF ~JTruthy(payload) THEN <<>>
    ELSE LET collections == JField(payload, "collections")
             colArray == IF collections.t = "array" THEN collections ELSE payload
             content == JField(payload, "content")
         IN IF colArray.t = "array" THEN CollectionItemNames(colArray.items)
            ELSE IF content.t = "array" THEN ContentNames(content.items)
            ELSE <<>>

\* parseDbStats: the payload when it is an object, else what it parses to,
\* else {}
parseDbStats(payload) ==
    IF JTruthy(payload) /\ TypeofObject(payload) THEN payload
    ELSE LET parsed == JSONParse(StringOf(payload))
         IN IF parsed.thrown THEN JObj(EmptyOwn) ELSE parsed.v

\* a whole number in base 1024, least significant digit first
RECURSIVE ToKibDigits(_)
ToKibDigits(n) == IF n < KIB THEN <<n>> ELSE <<n % KIB>> \o ToKibDigits(n \div KIB)

\* toMarkdownTable(rows, headers)
toMarkdownTable(rows, headers) ==
    LET bar == <<" ","|"," ">>
        line(cells) == <<"|"," ">> \o JoinLines(cells, bar) \o <<" ","|">>
        header == line(headers)
        sep == line([i \in 1..Len(headers) |-> <<"-","-","-">>])
        body == JoinLines([i \in 1..Len(rows) |-> line(rows[i])], <<"\n">>)
    IN header \o <<"\n">> \o sep \o <<"\n">> \o body

\* /\btable\b|\btabular\b|\btable\s*form/i .test(userQuery || '')
WantsTable(q) ==
    \E i \in 1..Len(q) :
        \/ \E w \in {<<"t","a","b","l","e">>, <<"t","a","b","u","l","a","r">>} :
              LitAt(q, i, w) /\ WordBoundaryAround(q, i, i + Len(w) - 1)
        \/ /\ LitAt(q, i, <<"t","a","b","l","e">>)
           /\ (i = 1 \/ ~IsWordChar(q[i - 1]))
           /\ LitAt(q, SkipSpaces(q, i + 5), <<"f","o","r","m">>)

L_list_collections == <<"l","i","s","t","-","c","o","l","l","e","c","t","i","o","n","s">>
L_count == <<"c","o","u","n","t">>
L_db_stats == <<"d","b","-","s","t","a","t","s">>

\* the payload shown as text: itself when a string, else JSON.stringify
Preview(payload) == IF payload.t = "string" THEN payload.s ELSE Stringify(payload)

\* toolName.replace(/mcp_|mongodb_|mongo_/g, '')
RECURSIVE StripPrefixes(_)
StripPrefixes(name) ==
    IF Len(name) = 0 THEN <<>>
    ELSE IF LitAt(name, 1, <<"m","c","p","_">>) THEN StripPrefixes(SubSeq(name, 5, Len(name)))
    ELSE IF LitAt(name, 1, <<"m","o","n","g","o","d","b","_">>) THEN StripPrefixes(SubSeq(name, 9, Len(name)))
    ELSE IF LitAt(name, 1, <<"m","o","n","g","o","_">>) THEN StripPrefixes(SubSeq(name, 7, Len(name)))
    ELSE <<name[1]>> \o StripPrefixes(Tail(name))

\* the branch for collection listings, entered with the names found
CollectionSentences(names, wantsTable) ==
    IF wantsTable
    THEN << <<"H","e","r","e"," ","a","r","e"," ","t","h","e"," ","c","o","l","l","e","c","t","i","o","n","s",":">>,
            toMarkdownTable([i \in 1..Len(names) |-> <<names[i]>>], << <<"C","o","l","l","e","c","t","i","o","n"," ","N","a","m","e">> >>) >>
    ELSE << <<"T","h","e"," ","a","v","a","i","l","a","b","l","e"," ","c","o","l","l","e","c","t","i","o","n","s"," ","a","r","e",":"," ">> \o JoinLines(names, <<","," ">>) \o <<".">> >>

\* the branch for counts: the count, or null
CountOf(payload) ==
    LET maybe == Nullish(Nullish(Nullish(JField(payload, "count"), JField(payload, "total")),
                                 JField(payload, "result")), JNull)
    IN IF payload.t = "number" THEN payload
       ELSE IF JTruthy(payload) /\ TypeofObject(payload) /\ maybe.t = "number" THEN maybe
       ELSE JNull

\* a line of the statistics for a size in bytes
SizeLine(label, v) ==
    IF v.t = "number"
    THEN << label \o humanBytes(ToKibDigits(v.n)) \o <<" ","(">> \o NumberToString(v.n)
            \o <<" ","b","y","t","e","s",")">> >>
    ELSE <<>>

\* reading a field of stats: a TypeError when stats is null or undefined
StatsFields(stats) ==
    IF stats.t \in {"null", "undefined"} THEN Throw("TypeError") ELSE Return(stats)

\* the branch for database statistics
\* lines.push(`Documents: ${objects}`) when objects is a number
ObjectsLine(objects) ==
    IF objects.t = "number"
    THEN << <<"D","o","c","u","m","e","n","t","s",":"," ">> \o NumberToString(objects.n) >>
    ELSE <<>>

\* const lines = []; the pushes for objects, dataSize, storageSize, indexSize
StatsLines(stats) ==
    ObjectsLine(Nullish(JField(stats, "objects"), JField(stats, "count")))
    \o SizeLine(<<"D","a","t","a"," ","s","i","z","e",":"," ">>,
                Nullish(JField(stats, "dataSize"), JField(stats, "size")))
    \o SizeLine(<<"S","t","o","r","a","g","e"," ","s","i","z","e",":"," ">>,
                Nullish(JField(stats, "storageSize"), JField(stats, "totalSize")))
    \o SizeLine(<<"I","n","d","e","x"," ","s","i","z","e",":"," ">>, JField(stats, "indexSize"))

\* if (lines.length > 0) sentences.push(lines.join('\n')); else the preview
StatsSentence(lines, payload) ==
    IF Len(lines) > 0 THEN << JoinLines(lines, <<"\n">>) >>
    ELSE << <<"D","B"," ","s","t","a","t","s",":"," ">> \o Preview(payload) >>

\* the branch once stats was read
StatsBranch(read, payload) ==
    IF read.thrown THEN read ELSE Return(StatsSentence(StatsLines(read.v), payload))

DbStatsSentences(payload) == StatsBranch(StatsFields(parseDbStats(payload)), payload)

\* the generic sentence
GenericSentence(toolName, payload) ==
    IF Len(toolName) > 0
    THEN <<"I"," ","r","a","n"," ">> \o StripPrefixes(toolName) \o <<" ","a","n","d"," ","o","b","t","a","i","n","e","d"," ","a"," ","r","e","s","u","l","t",":"," ">> \o Preview(payload)
    ELSE <<"I"," ","o","b","t","a","i","n","e","d"," ","a"," ","r","e","s","u","l","t",":"," ">> \o Preview(payload)

\* one pass of the loop over toolResults: the sentences pushed, or a throw
\* const toolName = (tr?.toolName || tr?.tool || '').toString().toLowerCase()
ToolNameOf(tr) ==
    ToLowerCase(StringOf(OrElse(OrElse(JField(tr, "toolName"), JField(tr, "tool")), JStr(<<>>))))

\* const payload = tr?.result ?? tr?.output ?? tr?.data ?? tr
PayloadFieldOf(tr) ==
    Nullish(Nullish(Nullish(JField(tr, "result"), JField(tr, "output")), JField(tr, "data")), tr)

\* the branches of the loop body, in the order of the code, for the names
\* and the count read from the payload
NormalizeBranches(toolName, payload, names, count, wantsTable) ==
    IF Includes(toolName, L_list_collections) /\ Len(names) > 0
    THEN Return(CollectionSentences(names, wantsTable))
    ELSE IF Includes(toolName, L_count) /\ count.t = "number"
    THEN Return(<< <<"T","h","e"," ","c","o","u","n","t"," ","i","s"," ">> \o NumberToString(count.n) \o <<".">> >>)
    ELSE IF Includes(toolName, L_db_stats)
    THEN DbStatsSentences(payload)
    ELSE Return(<< GenericSentence(toolName, payload) >>)

NormalizePayload(toolName, payload, wantsTable) ==
    NormalizeBranches(toolName, payload, parseListCollections(payload), CountOf(payload), wantsTable)

NormalizeOne(tr, wantsTable) == NormalizePayload(ToolNameOf(tr), PayloadFieldOf(tr), wantsTable)

\* the sentences of one pass and then those of the passes after it, unless a
\* pass threw
ThenPush(head, rest) ==
    IF head.thrown THEN head
    ELSE IF rest.thrown THEN rest
    ELSE Return(head.v \o rest.v)

\* return sentences.join('\n')
JoinSentences(r) == IF r.thrown THEN r ELSE Return(JoinLines(r.v, <<"\n">>))

RECURSIVE NormalizeLoop(_, _)
NormalizeLoop(trs, wantsTable) ==
    IF Len(trs) = 0 THEN Return(<<>>)
    ELSE ThenPush(NormalizeOne(trs[1], wantsTable), NormalizeLoop(Tail(trs), wantsTable))

\* formatToolResultsToNaturalLanguage(toolResults, userQuery): the string
\* returned, or the exception thrown
formatToolResultsToNaturalLanguage(toolResults, userQuery) ==
    IF toolResults.t # "array" \/ Len(toolResults.items) = 0 THEN Return(<<>>)
    ELSE JoinSentences(NormalizeLoop(toolResults.items, WantsTable(userQuery)))

(***************************************************************************)
(* State                                                                   *)
(***************************************************************************)
VARIABLES
    fnCall,     \* a call of one exported function of lib/agent.js: its arguments
    fnRet       \* what that call returned, NotYet before it ran

VARIABLES
    variant,            \* which variant of the route is deployed
    pc,                 \* where the POST handler stands
    query,              \* const query
    allTools,           \* const allTools (tools in the cached variant)
    safeTools,          \* const safeTools
    plannedToolNames,   \* const plannedToolNames
    execTools,          \* const execTools
    result,             \* let result
    finalText,          \* let finalText
    resources,          \* let resources (mcpClient in the cached variant): set or null
    timer,              \* the timer of withTimeout
    aborted,            \* ac.signal.aborted
    elapsed,            \* index in TimePoints: the time since the timer was armed
    inflight,           \* the generation calls started and not yet settled
    calls,              \* every generation call of the turn, in the order started
    response,           \* the response the handler returns
    mcpClientCache      \* cached variant: the module's mcpClientCache is set

\* the module state of the route with the cached MCP client, and the
\* requests it serves at one time
VARIABLES
    cachedClient,       \* the client mcpClientCache holds: an index in sessions, 0 for null
    mcpToolsCache,      \* let mcpToolsCache: the cached tools, or null
    cacheTimestamp,     \* let cacheTimestamp
    now,                \* index in ClockPoints: what Date.now() returns
    sessions,           \* every MCP client created, in the order created
    reqs                \* the requests: where each handler stands, its locals

\* the response shaping and the event stream of the streaming variant
VARIABLES
    streamMode,         \* const streamMode
    events,             \* the events enqueued on the stream, in order
    emitPos             \* let i of the content loop

\* a chat front-end in the browser
VARIABLES
    ui,                 \* which front-end: the page (page.js) or the widget
    input,              \* the text in the input box (inputValue in page.js)
    isTyping,           \* the isTyping flag (loading in page.js)
    pending,            \* the texts of the chatbot requests in flight
    sent,               \* how many requests were sent so far
    followUps,          \* the follow-up questions shown as buttons (msg.followUps)
    followUp            \* the timer of handleFollowUpClick: unset, or the input its handler sees

fnVars == <<fnCall, fnRet>>
streamVars == <<streamMode, events, emitPos>>
clientVars == <<ui, input, isTyping, pending, sent, followUps, followUp>>
cacheVars == <<cachedClient, mcpToolsCache, cacheTimestamp, now, sessions, reqs>>
turnVars == <<variant, pc, query, allTools, safeTools, plannedToolNames, execTools,
              result, finalText, resources, timer, aborted, elapsed, inflight,
              calls, response, mcpClientCache>>
vars == <<fnVars, turnVars, cacheVars, streamVars, clientVars>>

NotYet == [t |-> "pending"]

NoTimer == [armed |-> FALSE, fired |-> FALSE, delay |-> 0, env |-> Undefined, firedAt |-> 0]

\* the state when the module is loaded and no request has arrived
TurnInit ==
    /\ variant \in Variants
    /\ pc = "idle"
    /\ query = <<>>
    /\ allTools = Undefined
    /\ safeTools = Undefined
    /\ plannedToolNames = Undefined
    /\ execTools = Undefined
    /\ result = Undefined
    /\ finalText = <<>>
    /\ resources = FALSE
    /\ timer = NoTimer
    /\ aborted = FALSE
    /\ elapsed = 1
    /\ inflight = {}
    /\ calls = <<>>
    /\ response = Undefined
    /\ mcpClientCache = FALSE

MaxReqs == 2

\* the requests served at one time
Reqs == 1..MaxReqs

\* const CACHE_DURATION = 5 * 60 * 1000
CACHE_DURATION == 5 * 60 * 1000

\* the instants (milliseconds) Date.now() visits
ClockPoints == <<0, 299999, 300000>>

\* a request of the route with the cached client that has not arrived
NoReq == [pc |-> "idle", now |-> 0, client |-> 0, mcpClient |-> 0,
          tools |-> Undefined, response |-> "none"]

\* the module state when the module is loaded: no client cached, none created
CacheIdle ==
    /\ cachedClient = 0
    /\ mcpToolsCache = Null
    /\ cacheTimestamp = 0
    /\ now = 1
    /\ sessions = <<>>
    /\ reqs = [r \in Reqs |-> NoReq]

\* no response is being shaped or streamed
StreamIdle ==
    /\ streamMode = FALSE
    /\ events = <<>>
    /\ emitPos = 0

NoTimeout == [t |-> "unset"]

\* no front-end is open
ClientIdle ==
    /\ ui = "none"
    /\ input = <<>>
    /\ isTyping = FALSE
    /\ pending = <<>>
    /\ sent = 0
    /\ followUps = {}
    /\ followUp = NoTimeout

(***************************************************************************)
(* route.js: pieces of the POST handler                                    *)
(***************************************************************************)
\* a generation call: generateText (streamText for the stream variant's
\* narration) with `tools` attached, given the abort signal or not
Call(kind, tools, signal) == [kind |-> kind, tools |-> tools, signal |-> signal]

\* mutant: the call is not awaited, so it is still in flight afterwards
Settled_NotAwaited(fl, kind) == fl

\* the calls in flight once the awaited call of kind `kind` has settled
Settled(fl, kind) == {c \in fl : c.kind # kind}

\* the calls in flight once call c has been started
Started(fl, c) == fl \cup {c}

\* the catch clause of POST
CatchResponse(v, err) ==
    LET isAbort == err.name = "AbortError"
    IN IF v = "cached"
       THEN [status |-> 500, kind |-> "error", error |-> "Internal Server Error",
             details |-> IF isAbort THEN CachedTimeoutDetails ELSE err.message]
       ELSE [status |-> 500, kind |-> "error",
             error |-> IF isAbort THEN TimeoutMsg
                       ELSE IF err.message # "" THEN err.message
                       ELSE "Internal Error"]

\* the finally clause: the handler awaits closeAll when resources is set (the
\* cached variant closes mcpClient when the module's cache is not set)
FinallyPc(v, res, cache) ==
    IF (v # "cached" /\ res) \/ (v = "cached" /\ res /\ ~cache)
    THEN "closing" ELSE "done"

\* x || [] of a toolCalls / toolResults field
OrEmptyArr(x) == IF x.t = "array" THEN x ELSE Arr(<<>>)

HasItems(x) == x.t = "array" /\ Len(x.items) > 0

MIN_TEXT_LEN == 20

\* the test of the route before the narration call
IsMinimalForRoute(text) ==
    \/ ToLowerCase(text) = <<"d","o","n","e">>
    \/ ToLowerCase(text) = <<"d","o","n","e",".">>
    \/ Len(text) < MIN_TEXT_LEN

\* mutant: the nudge condition without the check that tools are attached
NudgeCondition_NoToolsCheck(q, res, tools) ==
    /\ looksDbRelated(q)
    /\ (res.toolCalls.t # "array" \/ Len(res.toolCalls.items) = 0)

\* the nudge condition of the route
NudgeCondition(q, res, tools) ==
    /\ looksDbRelated(q)
    /\ (res.toolCalls.t # "array" \/ Len(res.toolCalls.items) = 0)
    /\ Cardinality(OwnKeys(tools)) > 0

NoResponseText == <<"N","o"," ","r","e","s","p","o","n","s","e"," ","g","e","n","e","r","a","t","e","d","."," ","T","h","e"," ","d","a","t","a","b","a","s","e"," ","t","o","o","l","s"," ","m","a","y"," ","b","e"," ","u","n","a","v","a","i","l","a","b","l","e"," ","o","r"," ","t","i","m","e","d"," ","o","u","t",".">>

\* a tool-result record of the turn as a JSON value
AsToolResult(r) ==
    IF "content" \in DOMAIN r
    THEN JObj([content |-> JArr([i \in 1..Len(r.content) |->
                  JObj([type |-> JStr(KeyChars(r.content[i].type)),
                        text |-> JStr(r.content[i].text)])])])
    ELSE r

\* Array.isArray(result?.toolResults) ? result.toolResults : []
ToolResultsOf(res) ==
    IF res.toolResults.t = "array"
    THEN Arr([i \in 1..Len(res.toolResults.items) |-> AsToolResult(res.toolResults.items[i])])
    ELSE Arr(<<>>)

\* the result text of the cached variant, or the exception thrown on the way
\* if (!text) text = 'No response generated'
OrNoResponse(text) == IF Len(text) = 0 THEN NoResponseText ELSE text

\* if (!text) { const n = formatToolResultsToNaturalLanguage(...); if (n && n.trim()) text = n }
SpokenOr(spoken) ==
    IF spoken.thrown THEN spoken
    ELSE Return(OrNoResponse(IF Len(Trim(spoken.v)) > 0 THEN spoken.v ELSE <<>>))

CachedResultText(res, q) ==
    IF Len(Trim(res.text)) > 0 THEN Return(res.text)
    ELSE SpokenOr(formatToolResultsToNaturalLanguage(ToolResultsOf(res), q))

\* const reasoningText
ReasoningTextOf(text) == extractBetween(text, TAG_REASONING_OPEN, TAG_REASONING_CLOSE)

\* const contentText: extractBetween(finalText, '<CONTENT>', '</CONTENT>') || finalText
ContentTextOf(text) ==
    LET content == extractBetween(text, TAG_CONTENT_OPEN, TAG_CONTENT_CLOSE)
    IN IF content.t = "string" /\ Len(content.s) > 0 THEN content.s ELSE text

\* the success response of the handler
OkResponse(v, text, planned, res) ==
    CASE v = "json" ->
           [status |-> 200, kind |-> "ok", result |-> text, plannedTools |-> planned,
            toolCalls |-> OrEmptyArr(res.toolCalls),
            toolResults |-> OrEmptyArr(res.toolResults)]
      [] v = "stream" ->
           [status |-> 200, kind |-> "ok", result |-> ContentTextOf(text),
            reasoning |-> ReasoningTextOf(text), plannedTools |-> planned,
            toolCalls |-> OrEmptyArr(res.toolCalls),
            toolResults |-> OrEmptyArr(res.toolResults)]
      [] v = "cached" ->
           [status |-> 200, kind |-> "ok", result |-> text,
            toolCalls |-> OrEmptyArr(res.toolCalls),
            toolResults |-> OrEmptyArr(res.toolResults)]

(***************************************************************************)
(* route.js: the POST handler, one action per stretch between two awaits   *)
(***************************************************************************)
\* the message of the response when the credential is not set
KeyNotSetMsg(v) ==
    IF v = "cached"
    THEN "Server misconfiguration: GOOGLE_GENERATIVE_AI_API_KEY is not set"
    ELSE "GOOGLE_GENERATIVE_AI_API_KEY not set"

\* mutant: the handler does not test the credential
Request_NoKeyCheck(body, hasKey) ==
    /\ pc = "idle"
    /\ LET q == body.query
           isString == q.t = "string"
           trimmed == IF isString THEN Trim(q.s) ELSE <<>>
       IN /\ query' = IF variant = "cached"
                      THEN (IF isString THEN q.s ELSE <<>>)
                      ELSE trimmed
          /\ IF Len(trimmed) = 0
             THEN /\ response' = [status |-> 400, kind |-> "error",
                                  error |-> "Invalid \"query\" provided"]
                  /\ pc' = "done"
             ELSE /\ response' = response
                  /\ pc' = IF variant = "cached" THEN "connecting" ELSE "loading"
    /\ UNCHANGED <<fnVars, streamVars, clientVars, cacheVars, variant, allTools, safeTools, plannedToolNames, execTools, result,
                   finalText, resources, timer, aborted, elapsed, inflight, calls,
                   mcpClientCache>>

\* the request arrives: body parsing and input validation (route.js 55-68;
\* the cached variant validates the untrimmed query)
Request(body, hasKey) ==
    /\ pc = "idle"
    /\ LET q == body.query
           isString == q.t = "string"
           trimmed == IF isString THEN Trim(q.s) ELSE <<>>
       IN /\ query' = IF variant = "cached"
                      THEN (IF isString THEN q.s ELSE <<>>)
                      ELSE trimmed
          /\ IF Len(trimmed) = 0
             THEN /\ response' = [status |-> 400, kind |-> "error",
                                  error |-> "Invalid \"query\" provided"]
                  /\ pc' = "done"
             ELSE IF ~hasKey
             THEN /\ response' = [status |-> 500, kind |-> "error",
                                  error |-> KeyNotSetMsg(variant)]
                  /\ pc' = "done"
             ELSE /\ response' = response
                  /\ pc' = IF variant = "cached" THEN "connecting" ELSE "loading"
    /\ UNCHANGED <<fnVars, streamVars, clientVars, cacheVars, variant, allTools, safeTools, plannedToolNames, execTools, result,
                   finalText, resources, timer, aborted, elapsed, inflight, calls,
                   mcpClientCache>>

\* mutant: the planner's call carries the visible tools
PlannerCall_WithTools(tools) == Call("plan", tools, FALSE)

\* the generation call of planTools: `tools: {}`, no abort signal
\* (agent.js 108-122)
PlannerCall(tools) == Call("plan", Obj(EmptyOwn), FALSE)

\* loadAllMCPTools resolves with the catalog: the gate runs and planTools
\* starts its generation call (route.js 71-101, agent.js 106-122)
LoadResolve(catalog) ==
    /\ pc = "loading"
    /\ allTools' = catalog
    /\ resources' = TRUE
    /\ safeTools' = buildToolSet(catalog, query)
    /\ inflight' = Started(inflight, PlannerCall(buildToolSet(catalog, query)))
    /\ calls' = Append(calls, PlannerCall(buildToolSet(catalog, query)))
    /\ pc' = "planning"
    /\ UNCHANGED <<fnVars, streamVars, clientVars, cacheVars, variant, query, plannedToolNames, execTools, result, finalText,
                   timer, aborted, elapsed, response, mcpClientCache>>

\* loadAllMCPTools rejects: the catch clause answers, resources is still null
LoadReject(err) ==
    /\ pc = "loading"
    /\ response' = CatchResponse(variant, err)
    /\ pc' = FinallyPc(variant, resources, mcpClientCache)
    /\ UNCHANGED <<fnVars, streamVars, clientVars, cacheVars, variant, query, allTools, safeTools, plannedToolNames, execTools,
                   result, finalText, resources, timer, aborted, elapsed, inflight,
                   calls, mcpClientCache>>

\* the planning call resolves with `text`: planTools parses it, filterTools
\* runs, the timer is armed and the primary call starts (agent.js 124-134,
\* route.js 103-119)
PlanResolve(text) ==
    /\ pc = "planning"
    /\ LET names == Arr(PlanParse(text, safeTools))
           filtered == filterTools(safeTools, names)
       IN /\ plannedToolNames' = names
          /\ IF filtered.thrown
             THEN /\ response' = CatchResponse(variant,
                                    [name |-> "TypeError", message |-> "not an object"])
                  /\ pc' = FinallyPc(variant, resources, mcpClientCache)
                  /\ inflight' = Settled(inflight, "plan")
                  /\ UNCHANGED <<execTools, timer, aborted, elapsed, calls>>
             ELSE /\ execTools' = filtered.v
                  /\ \E env \in EnvValues :
                        timer' = [armed |-> TRUE, fired |-> FALSE,
                                  delay |-> SetTimeoutDelay(TimeoutMs(variant, env)),
                                  env |-> env, firedAt |-> 0]
                  /\ aborted' = FALSE
                  /\ elapsed' = 1
                  /\ inflight' = Started(Settled(inflight, "plan"),
                                         Call("execute", filtered.v, TRUE))
                  /\ calls' = Append(calls, Call("execute", filtered.v, TRUE))
                  /\ pc' = "executing"
                  /\ response' = response
    /\ UNCHANGED <<fnVars, streamVars, clientVars, cacheVars, variant, query, allTools, safeTools, result, finalText, resources,
                   mcpClientCache>>

\* the planning call rejects: planTools awaits it outside its try block, so
\* the exception reaches the catch clause of POST (agent.js 108, route.js 189)
PlanReject(err) ==
    /\ pc = "planning"
    /\ inflight' = Settled(inflight, "plan")
    /\ response' = CatchResponse(variant, err)
    /\ pc' = FinallyPc(variant, resources, mcpClientCache)
    /\ UNCHANGED <<fnVars, streamVars, clientVars, cacheVars, variant, query, allTools, safeTools, plannedToolNames, execTools,
                   result, finalText, resources, timer, aborted, elapsed, calls,
                   mcpClientCache>>

\* cached variant: getMCPClient resolves with the client and its tools, which
\* it has stored in the module's cache; the timer is armed and the primary
\* call starts
ConnResolve(catalog) ==
    /\ pc = "connecting"
    /\ allTools' = catalog
    /\ resources' = TRUE
    /\ mcpClientCache' = TRUE
    /\ \E env \in EnvValues :
          timer' = [armed |-> TRUE, fired |-> FALSE,
                    delay |-> SetTimeoutDelay(TimeoutMs(variant, env)),
                    env |-> env, firedAt |-> 0]
    /\ aborted' = FALSE
    /\ elapsed' = 1
    /\ inflight' = Started(inflight, Call("execute", catalog, TRUE))
    /\ calls' = Append(calls, Call("execute", catalog, TRUE))
    /\ pc' = "executing"
    /\ UNCHANGED <<fnVars, streamVars, clientVars, cacheVars, variant, query, safeTools, plannedToolNames, execTools, result,
                   finalText, response>>

\* cached variant: getMCPClient rejects: the handler goes on with no tools
ConnReject ==
    /\ pc = "connecting"
    /\ allTools' = Obj(EmptyOwn)
    /\ \E env \in EnvValues :
          timer' = [armed |-> TRUE, fired |-> FALSE,
                    delay |-> SetTimeoutDelay(TimeoutMs(variant, env)),
                    env |-> env, firedAt |-> 0]
    /\ aborted' = FALSE
    /\ elapsed' = 1
    /\ inflight' = Started(inflight, Call("execute", Obj(EmptyOwn), TRUE))
    /\ calls' = Append(calls, Call("execute", Obj(EmptyOwn), TRUE))
    /\ pc' = "executing"
    /\ UNCHANGED <<fnVars, streamVars, clientVars, cacheVars, variant, query, safeTools, plannedToolNames, execTools, result,
                   finalText, resources, response, mcpClientCache>>

\* time passes while the primary call is awaited; a due timer fires before
\* the clock moves on
Tick ==
    /\ pc = "executing"
    /\ timer.armed
    /\ elapsed < Len(TimePoints)
    /\ timer.fired \/ TimePoints[elapsed] < timer.delay
    /\ elapsed' = elapsed + 1
    /\ UNCHANGED <<fnVars, streamVars, clientVars, cacheVars, variant, pc, query, allTools, safeTools, plannedToolNames,
                   execTools, result, finalText, resources, timer, aborted, inflight,
                   calls, response, mcpClientCache>>

\* mutant: the timer callback does not abort the signal
TimerFire_NoAbort ==
    /\ timer.armed
    /\ ~timer.fired
    /\ TimePoints[elapsed] >= timer.delay
    /\ timer' = [timer EXCEPT !.fired = TRUE, !.firedAt = TimePoints[elapsed]]
    /\ UNCHANGED <<fnVars, streamVars, clientVars, cacheVars, variant, pc, query, allTools, safeTools, plannedToolNames,
                   execTools, result, finalText, resources, aborted, elapsed, inflight,
                   calls, response, mcpClientCache>>

\* the timer of withTimeout fires: ac.abort() (route.js 21)
TimerFire ==
    /\ timer.armed
    /\ ~timer.fired
    /\ TimePoints[elapsed] >= timer.delay
    /\ timer' = [timer EXCEPT !.fired = TRUE, !.firedAt = TimePoints[elapsed]]
    /\ aborted' = TRUE
    /\ UNCHANGED <<fnVars, streamVars, clientVars, cacheVars, variant, pc, query, allTools, safeTools, plannedToolNames,
                   execTools, result, finalText, resources, elapsed, inflight, calls,
                   response, mcpClientCache>>

\* the tools attached to the primary call
AttachedTools == IF variant = "cached" THEN allTools ELSE execTools

\* mutant: the narration call is made whether or not there are tool results
GuardStep_NoResultsCheck(res, fl) ==
    LET text == Trim(res.text)
    IN IF IsMinimalForRoute(text)
       THEN /\ finalText' = text
            /\ inflight' = Started(fl, Call("narrate", Obj(EmptyOwn), FALSE))
            /\ calls' = Append(calls, Call("narrate", Obj(EmptyOwn), FALSE))
            /\ pc' = "narrating"
            /\ response' = response
       ELSE /\ finalText' = ensureMeaningfulResponse(text, res.toolResults)
            /\ inflight' = fl
            /\ calls' = calls
            /\ response' = OkResponse(variant,
                                      ensureMeaningfulResponse(text, res.toolResults),
                                      plannedToolNames, res)
            /\ pc' = FinallyPc(variant, resources, mcpClientCache)

\* the degenerate-output check after the execution calls (route.js 148-188):
\* the narration call starts, or the handler answers
GuardStep(res, fl) ==
    LET text == Trim(res.text)
    IN IF IsMinimalForRoute(text) /\ HasItems(res.toolResults)
       THEN /\ finalText' = text
            /\ inflight' = Started(fl, Call("narrate", Obj(EmptyOwn), FALSE))
            /\ calls' = Append(calls, Call("narrate", Obj(EmptyOwn), FALSE))
            /\ pc' = "narrating"
            /\ response' = response
       ELSE /\ finalText' = ensureMeaningfulResponse(text, res.toolResults)
            /\ inflight' = fl
            /\ calls' = calls
            /\ response' = OkResponse(variant,
                                      ensureMeaningfulResponse(text, res.toolResults),
                                      plannedToolNames, res)
            /\ pc' = FinallyPc(variant, resources, mcpClientCache)

\* the primary call resolves with `res` before the timer fired: clearTimeout,
\* then the nudge re-run starts, or the degenerate-output check runs; the
\* cached variant answers (route.js 119-145)
PrimaryResolve(res) ==
    /\ pc = "executing"
    /\ ~aborted
    /\ res \in ResultsOf(variant, AttachedTools)
    /\ timer' = NoTimer
    /\ elapsed' = 1
    /\ result' = res
    /\ IF variant = "cached"
       THEN LET text == CachedResultText(res, query)
            IN /\ finalText' = IF text.thrown THEN finalText ELSE text.v
               /\ inflight' = Settled(inflight, "execute")
               /\ calls' = calls
               /\ response' = IF text.thrown
                               THEN CatchResponse(variant,
                                        [name |-> text.v.name,
                                         message |-> "Cannot read properties of null"])
                               ELSE OkResponse(variant, text.v, plannedToolNames, res)
               /\ pc' = FinallyPc(variant, resources, mcpClientCache)
       ELSE IF NudgeCondition(query, res, execTools)
       THEN /\ inflight' = Started(Settled(inflight, "execute"),
                                   Call("nudge", execTools, FALSE))
            /\ calls' = Append(calls, Call("nudge", execTools, FALSE))
            /\ pc' = "nudging"
            /\ UNCHANGED <<finalText, response>>
       ELSE GuardStep(res, Settled(inflight, "execute"))
    /\ UNCHANGED <<fnVars, streamVars, clientVars, cacheVars, variant, query, allTools, safeTools, plannedToolNames, execTools,
                   resources, aborted, mcpClientCache>>

\* the primary call rejects on its own before the timer fired
PrimaryReject(err) ==
    /\ pc = "executing"
    /\ ~aborted
    /\ timer' = NoTimer
    /\ elapsed' = 1
    /\ inflight' = Settled(inflight, "execute")
    /\ response' = CatchResponse(variant, err)
    /\ pc' = FinallyPc(variant, resources, mcpClientCache)
    /\ UNCHANGED <<fnVars, streamVars, clientVars, cacheVars, variant, query, allTools, safeTools, plannedToolNames, execTools,
                   result, finalText, resources, aborted, calls,
                   mcpClientCache>>

\* the primary call, its signal aborted, rejects with an AbortError
PrimaryAbort ==
    /\ pc = "executing"
    /\ aborted
    /\ timer' = [timer EXCEPT !.armed = FALSE]
    /\ inflight' = Settled(inflight, "execute")
    /\ response' = CatchResponse(variant, AbortError)
    /\ pc' = FinallyPc(variant, resources, mcpClientCache)
    /\ UNCHANGED <<fnVars, streamVars, clientVars, cacheVars, variant, query, allTools, safeTools, plannedToolNames, execTools,
                   result, finalText, resources, aborted, elapsed, calls,
                   mcpClientCache>>

\* mutant: the nudge is a loop, re-run as long as no tool was called
NudgeResolve_Loop(res) ==
    /\ pc = "nudging"
    /\ res \in Results(execTools)
    /\ result' = res
    /\ IF NudgeCondition(query, res, execTools)
       THEN /\ inflight' = Started(Settled(inflight, "nudge"),
                                   Call("nudge", execTools, FALSE))
            /\ calls' = Append(calls, Call("nudge", execTools, FALSE))
            /\ pc' = "nudging"
            /\ UNCHANGED <<finalText, response>>
       ELSE GuardStep(res, Settled(inflight, "nudge"))
    /\ UNCHANGED <<fnVars, streamVars, clientVars, cacheVars, variant, query, allTools, safeTools, plannedToolNames, execTools,
                   resources, timer, aborted, elapsed, mcpClientCache>>

\* the nudge re-run resolves: its result replaces the first one
\* (route.js 139-148)
NudgeResolve(res) ==
    /\ pc = "nudging"
    /\ res \in Results(execTools)
    /\ result' = res
    /\ GuardStep(res, Settled(inflight, "nudge"))
    /\ UNCHANGED <<fnVars, streamVars, clientVars, cacheVars, variant, query, allTools, safeTools, plannedToolNames, execTools,
                   resources, timer, aborted, elapsed, mcpClientCache>>

NudgeReject(err) ==
    /\ pc = "nudging"
    /\ inflight' = Settled(inflight, "nudge")
    /\ response' = CatchResponse(variant, err)
    /\ pc' = FinallyPc(variant, resources, mcpClientCache)
    /\ UNCHANGED <<fnVars, streamVars, clientVars, cacheVars, variant, query, allTools, safeTools, plannedToolNames, execTools,
                   result, finalText, resources, timer, aborted, elapsed, calls,
                   mcpClientCache>>

\* the narration call resolves with `text` (route.js 170-188)
NarrateResolve(text) ==
    /\ pc = "narrating"
    /\ LET chosen == IF Len(text) > 0 THEN text ELSE finalText
           final == ensureMeaningfulResponse(chosen, result.toolResults)
       IN /\ finalText' = final
          /\ response' = OkResponse(variant, final, plannedToolNames, result)
    /\ inflight' = Settled(inflight, "narrate")
    /\ pc' = FinallyPc(variant, resources, mcpClientCache)
    /\ UNCHANGED <<fnVars, streamVars, clientVars, cacheVars, variant, query, allTools, safeTools, plannedToolNames, execTools,
                   result, resources, timer, aborted, elapsed, calls, mcpClientCache>>

NarrateReject(err) ==
    /\ pc = "narrating"
    /\ inflight' = Settled(inflight, "narrate")
    /\ response' = CatchResponse(variant, err)
    /\ pc' = FinallyPc(variant, resources, mcpClientCache)
    /\ UNCHANGED <<fnVars, streamVars, clientVars, cacheVars, variant, query, allTools, safeTools, plannedToolNames, execTools,
                   result, finalText, resources, timer, aborted, elapsed, calls,
                   mcpClientCache>>

\* closeAll settles (a rejection is swallowed) and the response is returned
\* (route.js 195-199)
CloseSettled ==
    /\ pc = "closing"
    /\ pc' = "done"
    /\ UNCHANGED <<fnVars, streamVars, clientVars, cacheVars, variant, query, allTools, safeTools, plannedToolNames, execTools,
                   result, finalText, resources, timer, aborted, elapsed, inflight,
                   calls, response, mcpClientCache>>

DoRequest == \E body \in Bodies, hasKey \in BOOLEAN : Request(body, hasKey)
DoLoadResolve == \E catalog \in TurnCatalogs : LoadResolve(catalog)
DoLoadReject == \E err \in OwnErrors : LoadReject(err)
DoPlanResolve == \E text \in TurnReplies : PlanResolve(text)
DoPlanReject == \E err \in OwnErrors : PlanReject(err)
DoConnResolve == \E catalog \in TurnCatalogs : ConnResolve(catalog)
DoPrimaryResolve == \E res \in ResultsOf(variant, AttachedTools) : PrimaryResolve(res)
DoPrimaryReject == \E err \in OwnErrors : PrimaryReject(err)
DoNudgeResolve == \E res \in Results(execTools) : NudgeResolve(res)
DoNudgeReject == \E err \in OwnErrors : NudgeReject(err)
DoNarrateResolve == \E text \in Texts : NarrateResolve(text)
DoNarrateReject == \E err \in OwnErrors : NarrateReject(err)

Next ==
    \/ DoRequest
    \/ DoLoadResolve
    \/ DoLoadReject
    \/ DoPlanResolve
    \/ DoPlanReject
    \/ DoConnResolve
    \/ ConnReject
    \/ Tick
    \/ TimerFire
    \/ DoPrimaryResolve
    \/ DoPrimaryReject
    \/ PrimaryAbort
    \/ DoNudgeResolve
    \/ DoNudgeReject
    \/ DoNarrateResolve
    \/ DoNarrateReject
    \/ CloseSettled

FnIdle == fnCall = [op |-> "none"] /\ fnRet = NotYet

Init == TurnInit /\ FnIdle /\ CacheIdle /\ StreamIdle /\ ClientIdle


Spec == Init /\ [][Next]_vars

\* the scheduling the runtime guarantees: time passes and a due timer fires
\* while the handler awaits; a generation call whose signal is aborted
\* rejects; closeAll settles
SpecLive ==
    /\ Spec
    /\ WF_vars(Tick)
    /\ WF_vars(TimerFire)
    /\ WF_vars(PrimaryAbort)
    /\ WF_vars(CloseSettled)

(***************************************************************************)
(* The route with the cached MCP client: getMCPClient and the handlers of  *)
(* the requests served at one time, one action per stretch between awaits  *)
(***************************************************************************)
\* the variables of a turn but the module's mcpClientCache
handlerVars == <<variant, pc, query, allTools, safeTools, plannedToolNames, execTools,
                 result, finalText, resources, timer, aborted, elapsed, inflight,
                 calls, response>>

\* mcpClientCache && mcpToolsCache && (now - cacheTimestamp) < CACHE_DURATION
CacheFresh(t) ==
    /\ mcpClientCache
    /\ mcpToolsCache.t # "null"
    /\ (t - cacheTimestamp) < CACHE_DURATION

\* request r calls getMCPClient: it returns the cached client when that is
\* fresh, else it starts to read mcp-config.json (part_000 770, 708-718)
GetMCPClient(r) ==
    /\ reqs[r].pc = "idle"
    /\ LET t == ClockPoints[now]
       IN reqs' = [reqs EXCEPT ![r] =
                     IF CacheFresh(t)
                     THEN [@ EXCEPT !.pc = "generating", !.now = t,
                                    !.mcpClient = cachedClient,
                                    !.tools = mcpToolsCache]
                     ELSE [@ EXCEPT !.pc = "reading", !.now = t]]
    /\ UNCHANGED <<fnVars, streamVars, clientVars, handlerVars, mcpClientCache, cachedClient, mcpToolsCache,
                   cacheTimestamp, now, sessions>>

\* the configuration is read and names a command: createMCPClient is called
\* (part_000 718-732)
ReadResolve(r) ==
    /\ reqs[r].pc = "reading"
    /\ reqs' = [reqs EXCEPT ![r].pc = "creating"]
    /\ UNCHANGED <<fnVars, streamVars, clientVars, handlerVars, mcpClientCache, cachedClient, mcpToolsCache,
                   cacheTimestamp, now, sessions>>

\* getMCPClient throws before a client exists (the file cannot be read or
\* names no command, or createMCPClient rejects): the handler goes on with
\* no tools (part_000 741-744, 773-775)
EstablishReject(r) ==
    /\ reqs[r].pc \in {"reading", "creating"}
    /\ reqs' = [reqs EXCEPT ![r].pc = "generating", ![r].tools = Obj(EmptyOwn)]
    /\ UNCHANGED <<fnVars, streamVars, clientVars, handlerVars, mcpClientCache, cachedClient, mcpToolsCache,
                   cacheTimestamp, now, sessions>>

\* createMCPClient resolves with a new client, and client.tools() is called
\* (part_000 732-733)
CreateResolve(r) ==
    /\ reqs[r].pc = "creating"
    /\ sessions' = Append(sessions, [owner |-> r, closes |-> 0])
    /\ reqs' = [reqs EXCEPT ![r].pc = "listing", ![r].client = Len(sessions) + 1]
    /\ UNCHANGED <<fnVars, streamVars, clientVars, handlerVars, mcpClientCache, cachedClient, mcpToolsCache,
                   cacheTimestamp, now>>

\* client.tools() resolves: the cache is updated and the client returned
\* (part_000 733-740, 771-772)
ToolsResolve(r, catalog) ==
    /\ reqs[r].pc = "listing"
    /\ mcpClientCache' = TRUE
    /\ cachedClient' = reqs[r].client
    /\ mcpToolsCache' = catalog
    /\ cacheTimestamp' = reqs[r].now
    /\ reqs' = [reqs EXCEPT ![r].pc = "generating", ![r].mcpClient = reqs[r].client,
                            ![r].tools = catalog]
    /\ UNCHANGED <<fnVars, streamVars, clientVars, handlerVars, now, sessions>>

\* client.tools() rejects: getMCPClient throws with its client created, the
\* handler goes on with no tools and mcpClient still null
ToolsReject(r) ==
    /\ reqs[r].pc = "listing"
    /\ reqs' = [reqs EXCEPT ![r].pc = "generating", ![r].tools = Obj(EmptyOwn)]
    /\ UNCHANGED <<fnVars, streamVars, clientVars, handlerVars, mcpClientCache, cachedClient, mcpToolsCache,
                   cacheTimestamp, now, sessions>>

\* the generation call of request r settles and the handler answers; the
\* finally clause closes mcpClient when the module's cache is not set
\* (part_000 808-857)
Answer(r, ok) ==
    /\ reqs[r].pc = "generating"
    /\ LET close == FinallyPc("cached", reqs[r].mcpClient # 0,
                              mcpClientCache) = "closing"
       IN sessions' = IF close
                      THEN [sessions EXCEPT ![reqs[r].mcpClient].closes = @ + 1]
                      ELSE sessions
    /\ reqs' = [reqs EXCEPT ![r].pc = "done",
                            ![r].response = IF ok THEN "ok" ELSE "error"]
    /\ UNCHANGED <<fnVars, streamVars, clientVars, handlerVars, mcpClientCache, cachedClient, mcpToolsCache,
                   cacheTimestamp, now>>

\* time passes
ClockTick ==
    /\ now < Len(ClockPoints)
    /\ now' = now + 1
    /\ UNCHANGED <<fnVars, streamVars, clientVars, handlerVars, mcpClientCache, cachedClient, mcpToolsCache,
                   cacheTimestamp, sessions, reqs>>

DoGetMCPClient == \E r \in Reqs : GetMCPClient(r)
DoReadResolve == \E r \in Reqs : ReadResolve(r)
DoEstablishReject == \E r \in Reqs : EstablishReject(r)
DoCreateResolve == \E r \in Reqs : CreateResolve(r)
DoToolsResolve == \E r \in Reqs, catalog \in TurnCatalogs : ToolsResolve(r, catalog)
DoToolsReject == \E r \in Reqs : ToolsReject(r)
DoAnswer == \E r \in Reqs, ok \in BOOLEAN : Answer(r, ok)

CacheNext ==
    \/ DoGetMCPClient
    \/ DoReadResolve
    \/ DoEstablishReject
    \/ DoCreateResolve
    \/ DoToolsResolve
    \/ DoToolsReject
    \/ DoAnswer
    \/ ClockTick

CacheInit ==
    /\ TurnInit
    /\ variant = "cached"
    /\ FnIdle
    /\ CacheIdle
    /\ StreamIdle
    /\ ClientIdle

SpecCache == CacheInit /\ [][CacheNext]_vars

(***************************************************************************)
(* The exported functions of lib/agent.js, applied to every input          *)
(***************************************************************************)
\* the texts ensureMeaningfulResponse is given: the texts of a call, and the
\* low-content tokens in several spellings
GuardTexts ==
    Texts \cup { <<" ","O","K"," ">>, <<"o","k","a","y">>, <<"C","o","m","p","l","e","t","e","d">>, <<"f","i","n","i","s","h","e","d">>, <<"d","o","n","e">>, <<"D","o","n","e",".","\n">> }

F_bad == <<"\"","_","i","d","\"","?">>

\* tool-result records with a document and a fragment that is no JSON, with
\* four documents, with a fragment that is no text, and with no fragment
R_docs2 == [content |-> <<[type |-> "text", text |-> F_doc], [type |-> "text", text |-> F_bad]>>]
R_docs4 == [content |-> <<[type |-> "text", text |-> F_doc], [type |-> "text", text |-> F_doc],
                          [type |-> "text", text |-> F_doc], [type |-> "text", text |-> F_doc]>>]
R_image == [content |-> <<[type |-> "image", text |-> <<>>]>>]
R_empty == [content |-> <<>>]

GuardRecords == { R_doc, R_txt, R_docs2, R_docs4, R_image, R_empty }

\* the toolResults ensureMeaningfulResponse is given: absent, empty, one
\* record, two records
GuardToolResults ==
    { Undefined, Arr(<<>>) }
    \cup { Arr(<<r>>) : r \in GuardRecords }
    \cup { Arr(<<r1, r2>>) : r1 \in GuardRecords, r2 \in GuardRecords }

\* tool names given to the normalizer, and the query that asks for a table
TN_list_collections == <<"l","i","s","t","-","c","o","l","l","e","c","t","i","o","n","s">>
TN_count  == <<"c","o","u","n","t">>
TN_stats  == <<"D","B","-","S","t","a","t","s">>
TN_ping   == <<"p","i","n","g">>
TN_prefixed == <<"m","o","n","g","o","d","b","_","p","i","n","g">>
Q_table   == <<"s","h","o","w"," ","c","o","l","l","e","c","t","i","o","n","s"," ","i","n"," ","a"," ","t","a","b","l","e">>

NormalizerNames == { TN_list_collections, TN_count, TN_stats, TN_ping, TN_prefixed }

\* a text fragment that names a collection
NameFragment(name, type) ==
    LET text == <<"N","a","m","e",":"," ","\"">> \o name \o <<"\"">>
    IN IF type = <<>> THEN JObj([text |-> JStr(text)])
       ELSE JObj([type |-> JStr(type), text |-> JStr(text)])

C_orders == <<"o","r","d","e","r","s">>
C_users  == <<"u","s","e","r","s">>
C_mydata == <<"m","y"," ","d","a","t","a">>

\* the payloads of the tool results: texts that parse to null, to a number,
\* to a string, to an object and to nothing, numbers, objects, arrays
NormalizerPayloads ==
    { JNull, JStr(F_null), JStr(F_five), JStr(F_quoted), JStr(F_stats), JStr(F_abc),
      JNum(0), JNum(7), JObj(EmptyOwn), JObj([count |-> JNum(7)]),
      JObj([objects |-> JNum(3), dataSize |-> JNum(2048)]),
      JArr(<<JStr(C_orders), JStr(C_users)>>),
      JObj([collections |-> JArr(<<JObj([name |-> JStr(C_orders)])>>)]),
      JObj([content |-> JArr(<<NameFragment(C_orders, <<"t","e","x","t">>),
                                NameFragment(C_users, <<"t","e","x","t">>)>>)]),
      JObj([content |-> JArr(<<JObj([type |-> JStr(<<"t","e","x","t">>), text |-> JStr(F_null)])>>)]) }

\* the tool-result records: null, a bare string, records with and without
\* a tool name
NormalizerRecords ==
    { JNull, JStr(F_abc), JObj([tool |-> JStr(TN_count), output |-> JNum(7)]) }
    \cup { JObj([result |-> p]) : p \in NormalizerPayloads }
    \cup { JObj([toolName |-> JStr(n), result |-> p]) :
             n \in NormalizerNames, p \in NormalizerPayloads }

\* the toolResults the normalizer is given: absent, empty, one record, and
\* pairs of records the branches render
NormalizerToolResults ==
    { Undefined, Arr(<<>>) }
    \cup { Arr(<<r>>) : r \in NormalizerRecords }
    \cup { Arr(<<JObj([toolName |-> JStr(TN_count), result |-> JNum(7)]), r>>) :
             r \in { JObj([toolName |-> JStr(n), result |-> JStr(F_null)]) : n \in NormalizerNames } }

MaxColls == 2

CollNames == { C_orders, C_users, C_mydata }

\* the shapes a collection listing comes in, and the type field of a fragment
\* (<<>>: the fragment has none)
ListingShapes == { "content", "collections", "objects", "bare" }
FragmentTypes == { <<"t","e","x","t">>, <<"j","s","o","n">>, <<>> }

\* the payload that lists `names` in a shape
ListingPayload(shape, names, type) ==
    CASE shape = "content" ->
           JObj([content |-> JArr([i \in 1..Len(names) |-> NameFragment(names[i], type)])])
      [] shape = "collections" ->
           JObj([collections |-> JArr([i \in 1..Len(names) |-> JStr(names[i])])])
      [] shape = "objects" ->
           JObj([collections |-> JArr([i \in 1..Len(names) |-> JObj([name |-> JStr(names[i])])])])
      [] shape = "bare" -> JArr([i \in 1..Len(names) |-> JStr(names[i])])

FnInputs ==
    {[op |-> "buildToolSet", allTools |-> c, query |-> q] :
        c \in Catalogs \cup {Undefined, Null}, q \in Queries}
    \cup {[op |-> "ensureMeaningfulResponse", finalText |-> x, toolResults |-> trs] :
        x \in GuardTexts, trs \in GuardToolResults}
    \cup {[op |-> "filterTools", all |-> v, allowList |-> l] :
        v \in Catalogs, l \in AllowLists}
    \cup {[op |-> "planTools", text |-> r, tools |-> v] :
        r \in Replies, v \in TurnCatalogs}
    \cup {[op |-> "humanBytes", bytes |-> b] : b \in ByteCounts}
    \cup {[op |-> "formatToolResultsToNaturalLanguage", results |-> trs, userQuery |-> q] :
        trs \in NormalizerToolResults, q \in {Q_list, Q_table}}
    \cup {[op |-> "parseListCollections", shape |-> sh, names |-> ns, type |-> ty] :
        sh \in ListingShapes, ns \in SeqsUpTo(CollNames, MaxColls), ty \in FragmentTypes}

FnInit ==
    /\ TurnInit
    /\ CacheIdle
    /\ StreamIdle
    /\ ClientIdle
    /\ fnCall \in FnInputs
    /\ fnRet = NotYet

CallBuildToolSet ==
    /\ fnCall.op = "buildToolSet"
    /\ fnRet = NotYet
    /\ fnRet' = Return(buildToolSet(fnCall.allTools, fnCall.query))
    /\ UNCHANGED <<fnCall, turnVars, cacheVars, streamVars, clientVars>>

CallFilterTools ==
    /\ fnCall.op = "filterTools"
    /\ fnRet = NotYet
    /\ fnRet' = filterTools(fnCall.all, fnCall.allowList)
    /\ UNCHANGED <<fnCall, turnVars, cacheVars, streamVars, clientVars>>

\* planTools from the point where the generation call has returned its text
CallPlanParse ==
    /\ fnCall.op = "planTools"
    /\ fnRet = NotYet
    /\ fnRet' = Return(Arr(PlanParse(fnCall.text, fnCall.tools)))
    /\ UNCHANGED <<fnCall, turnVars, cacheVars, streamVars, clientVars>>

CallEnsureMeaningfulResponse ==
    /\ fnCall.op = "ensureMeaningfulResponse"
    /\ fnRet = NotYet
    /\ fnRet' = Return(JStr(ensureMeaningfulResponse(fnCall.finalText, fnCall.toolResults)))
    /\ UNCHANGED <<fnCall, turnVars, cacheVars, streamVars, clientVars>>

CallHumanBytes ==
    /\ fnCall.op = "humanBytes"
    /\ fnRet = NotYet
    /\ fnRet' = Return(JStr(humanBytes(fnCall.bytes)))
    /\ UNCHANGED <<fnCall, turnVars, cacheVars, streamVars, clientVars>>

\* the string returned, as a value
AsJStr(r) == IF r.thrown THEN r ELSE Return(JStr(r.v))

CallFormatToolResults ==
    /\ fnCall.op = "formatToolResultsToNaturalLanguage"
    /\ fnRet = NotYet
    /\ fnRet' = AsJStr(formatToolResultsToNaturalLanguage(fnCall.results, fnCall.userQuery))
    /\ UNCHANGED <<fnCall, turnVars, cacheVars, streamVars, clientVars>>

CallParseListCollections ==
    /\ fnCall.op = "parseListCollections"
    /\ fnRet = NotYet
    /\ fnRet' = LET names == parseListCollections(
                                ListingPayload(fnCall.shape, fnCall.names, fnCall.type))
                IN Return(JArr([i \in 1..Len(names) |-> JStr(names[i])]))
    /\ UNCHANGED <<fnCall, turnVars, cacheVars, streamVars, clientVars>>

FnNext ==
    \/ CallBuildToolSet
    \/ CallFilterTools
    \/ CallPlanParse
    \/ CallEnsureMeaningfulResponse
    \/ CallHumanBytes
    \/ CallFormatToolResults
    \/ CallParseListCollections

SpecFn == FnInit /\ [][FnNext]_vars

(***************************************************************************)
(* route.js (streaming variant): the response built from finalText, as one *)
(* JSON body or as a stream of line-delimited events (lines 676-749)       *)
(***************************************************************************)
CHUNK_SIZE == 30

S_answer == <<"T","h","e","r","e"," ","a","r","e"," ","2"," ","u","s","e","r","s",".">>
S_long   == <<"T","h","e"," ","u","s","e","r","s"," ","c","o","l","l","e","c","t","i","o","n"," ","h","o","l","d","s"," ","2"," ","d","o","c","u","m","e","n","t","s",":"," ","o","n","e"," ","f","o","r"," ","A","n","n",","," ","o","n","e"," ","f","o","r"," ","B","o","b",".">>
S_thirty == <<"I"," ","f","o","u","n","d"," ","3","0"," ","c","h","a","r","a","c","t","e","r","s"," ","o","f"," ","t","e","x","t",".">>
S_why    == <<"w","h","y">>
TAG_EXPLANATION_OPEN  == <<"<","E","X","P","L","A","N","A","T","I","O","N",">">>
TAG_EXPLANATION_CLOSE == <<"<","/","E","X","P","L","A","N","A","T","I","O","N",">">>

\* the final texts: plain ones (of one chunk, of three, empty), and texts
\* with an explanation written in the tags the prompt asks for, in the tags
\* the route reads, with a content block of one full chunk, and with an
\* empty content block
ShapedTexts ==
    { <<>>, S_answer, S_long,
      TAG_EXPLANATION_OPEN \o <<"\n">> \o S_why \o <<"\n">> \o TAG_EXPLANATION_CLOSE
        \o <<"\n">> \o TAG_CONTENT_OPEN \o <<"\n">> \o S_answer \o <<"\n">> \o TAG_CONTENT_CLOSE,
      TAG_REASONING_OPEN \o S_why \o TAG_REASONING_CLOSE
        \o TAG_CONTENT_OPEN \o S_long \o TAG_CONTENT_CLOSE,
      TAG_CONTENT_OPEN \o S_thirty \o TAG_CONTENT_CLOSE,
      TAG_REASONING_OPEN \o S_why \o TAG_REASONING_CLOSE \o TAG_CONTENT_OPEN \o TAG_CONTENT_CLOSE }

\* the handler has its final text: ensureMeaningfulResponse has returned
StreamInit ==
    /\ variant = "stream"
    /\ pc = "shaping"
    /\ query = Q_list
    /\ allTools = Obj(EmptyOwn)
    /\ safeTools = Obj(EmptyOwn)
    /\ plannedToolNames \in { Arr(<<>>), Arr(<<N_find>>) }
    /\ execTools = Obj(EmptyOwn)
    /\ \E tc \in { Undefined, Arr(<<ToolCall>>) } :
          result = [text |-> <<>>, toolCalls |-> tc, toolResults |-> Undefined]
    /\ finalText \in ShapedTexts
    /\ resources = FALSE
    /\ timer = NoTimer
    /\ aborted = FALSE
    /\ elapsed = 1
    /\ inflight = {}
    /\ calls = <<>>
    /\ response = Undefined
    /\ mcpClientCache = FALSE
    /\ streamMode \in BOOLEAN
    /\ events = <<>>
    /\ emitPos = 0
    /\ FnIdle
    /\ CacheIdle
    /\ ClientIdle

\* the response is returned: the JSON body, or the stream whose start()
\* then runs
ShapeResponse ==
    /\ pc = "shaping"
    /\ IF streamMode
       THEN /\ response' = [status |-> 200, kind |-> "stream"]
            /\ pc' = "content"
       ELSE /\ response' = OkResponse(variant, finalText, plannedToolNames, result)
            /\ pc' = FinallyPc(variant, resources, mcpClientCache)
    /\ UNCHANGED <<fnVars, cacheVars, clientVars, streamVars, variant, query, allTools,
                   safeTools, plannedToolNames, execTools, result, finalText, resources,
                   timer, aborted, elapsed, inflight, calls, mcpClientCache>>

\* mutant: a chunk one character short
StreamChunk_Short(text, i) ==
    SubSeq(text, i + 1, IF i + CHUNK_SIZE - 1 < Len(text) THEN i + CHUNK_SIZE - 1 ELSE Len(text))

\* contentText.slice(i, i + chunkSize)
StreamChunk(text, i) ==
    SubSeq(text, i + 1, IF i + CHUNK_SIZE < Len(text) THEN i + CHUNK_SIZE ELSE Len(text))

\* one pass of the content loop: a content event is enqueued
EmitContent ==
    /\ pc = "content"
    /\ emitPos < Len(ContentTextOf(finalText))
    /\ events' = Append(events, [type |-> "content",
                                  delta |-> StreamChunk(ContentTextOf(finalText), emitPos)])
    /\ emitPos' = emitPos + CHUNK_SIZE
    /\ UNCHANGED <<fnVars, cacheVars, clientVars, streamMode, variant, pc, query, allTools,
                   safeTools, plannedToolNames, execTools, result, finalText, resources,
                   timer, aborted, elapsed, inflight, calls, response, mcpClientCache>>

\* the loop is over: the reasoning event is enqueued, content:
\* reasoningText || null
EmitReasoning ==
    /\ pc = "content"
    /\ emitPos >= Len(ContentTextOf(finalText))
    /\ events' = Append(events,
                    [type |-> "reasoning",
                     content |-> IF JTruthy(ReasoningTextOf(finalText))
                                 THEN ReasoningTextOf(finalText) ELSE Null])
    /\ pc' = "meta"
    /\ UNCHANGED <<fnVars, cacheVars, clientVars, streamMode, emitPos, variant, query, allTools,
                   safeTools, plannedToolNames, execTools, result, finalText, resources,
                   timer, aborted, elapsed, inflight, calls, response, mcpClientCache>>

\* the meta event is enqueued
EmitMeta ==
    /\ pc = "meta"
    /\ events' = Append(events, [type |-> "meta", plannedTools |-> plannedToolNames,
                                  toolCalls |-> OrEmptyArr(result.toolCalls)])
    /\ pc' = "finish"
    /\ UNCHANGED <<fnVars, cacheVars, clientVars, streamMode, emitPos, variant, query, allTools,
                   safeTools, plannedToolNames, execTools, result, finalText, resources,
                   timer, aborted, elapsed, inflight, calls, response, mcpClientCache>>

\* the done event is enqueued and the stream is closed
EmitDone ==
    /\ pc = "finish"
    /\ events' = Append(events, [type |-> "done"])
    /\ pc' = "closed"
    /\ UNCHANGED <<fnVars, cacheVars, clientVars, streamMode, emitPos, variant, query, allTools,
                   safeTools, plannedToolNames, execTools, result, finalText, resources,
                   timer, aborted, elapsed, inflight, calls, response, mcpClientCache>>

\* building or encoding the next event throws while the stream is open: the
\* catch clause enqueues the error event and closes the stream
EmitFail ==
    /\ pc \in {"content", "meta", "finish"}
    /\ events' = Append(events, [type |-> "error", error |-> "stream error"])
    /\ pc' = "closed"
    /\ UNCHANGED <<fnVars, cacheVars, clientVars, streamMode, emitPos, variant, query, allTools,
                   safeTools, plannedToolNames, execTools, result, finalText, resources,
                   timer, aborted, elapsed, inflight, calls, response, mcpClientCache>>

\* the consumer cancels the stream: every later enqueue throws, the one of
\* the catch clause too, so no further event is enqueued
CancelStream ==
    /\ pc \in {"content", "meta", "finish"}
    /\ pc' = "cancelled"
    /\ UNCHANGED <<fnVars, cacheVars, clientVars, streamVars, variant, query, allTools,
                   safeTools, plannedToolNames, execTools, result, finalText, resources,
                   timer, aborted, elapsed, inflight, calls, response, mcpClientCache>>

StreamNext ==
    \/ ShapeResponse
    \/ EmitContent
    \/ EmitReasoning
    \/ EmitMeta
    \/ EmitDone
    \/ EmitFail
    \/ CancelStream

SpecStream == StreamInit /\ [][StreamNext]_vars

(***************************************************************************)
(* The chat front-ends: the page (page.js) and the widget.  One action per  *)
(* event handler; React commits the state a handler of a discrete event    *)
(* sets before the next event is handled, so a handler sees the state the  *)
(* handlers before it left.  The callback of setTimeout is the exception:  *)
(* it calls the handleSend of the render in which the timer was set.       *)
(***************************************************************************)
MaxSends == 3

I_blank == <<" ">>
I_hi    == <<"h","i">>
Q_more  == <<"m","o","r","e","?">>

\* what the user types into the input box
ClientInputs == { <<>>, I_blank, I_hi }

\* the follow-up questions an answer may carry
FollowUpQuestions == { Q_more }

ClientInit ==
    /\ TurnInit
    /\ FnIdle
    /\ CacheIdle
    /\ StreamIdle
    /\ ui \in {"page", "widget"}
    /\ variant = (IF ui = "widget" THEN "stream" ELSE "json")
    /\ input = <<>>
    /\ isTyping = FALSE
    /\ pending = <<>>
    /\ sent = 0
    /\ followUps = {}
    /\ followUp = NoTimeout

\* onChange={(e) => setInputValue(e.target.value)}, onChange={(e) => setInput(e.target.value)}
TypeText(text) ==
    /\ ui \in {"page", "widget"}
    /\ sent < MaxSends
    /\ text # input
    /\ input' = text
    /\ UNCHANGED <<fnVars, turnVars, cacheVars, streamVars,
                   ui, isTyping, pending, sent, followUps, followUp>>

\* the request leaves: setInputValue(''), setLoading(true), fetch('/api/chatbot')
\* (page.js), setInput(""), setIsTyping(true), fetch('/api/chatbot?stream=1')
\* (the widget)
Fetch(trimmed) ==
    /\ input' = <<>>
    /\ isTyping' = TRUE
    /\ pending' = Append(pending, trimmed)
    /\ sent' = sent + 1

Ignore == UNCHANGED <<input, isTyping, pending, sent>>

\* const sendMessage = async () => { ... } of page.js, up to its await
sendMessage ==
    LET trimmed == Trim(input) IN
    IF trimmed = <<>> \/ isTyping THEN Ignore ELSE Fetch(trimmed)

\* const handleSend = async () => { ... } of the widget, up to its await, as
\* the render that saw the input text defined it
handleSend(text) ==
    LET trimmed == Trim(text) IN
    IF trimmed = <<>> THEN Ignore ELSE Fetch(trimmed)

\* Enter without shift in the input box: handleKeyDown (page.js),
\* handleKeyPress (the widget); neither input box is ever disabled
PressEnter ==
    /\ ui \in {"page", "widget"}
    /\ sent < MaxSends
    /\ IF ui = "page" THEN sendMessage ELSE handleSend(input)
    /\ UNCHANGED <<fnVars, turnVars, cacheVars, streamVars, ui, followUps, followUp>>

\* the send button, which is disabled while the flag is set or the input is
\* blank: it submits the form (handleSubmit, page.js) or calls handleSend
ClickSend ==
    /\ ui \in {"page", "widget"}
    /\ sent < MaxSends
    /\ ~(isTyping \/ Trim(input) = <<>>)
    /\ IF ui = "page" THEN sendMessage ELSE handleSend(input)
    /\ UNCHANGED <<fnVars, turnVars, cacheVars, streamVars, ui, followUps, followUp>>

\* const handleFollowUpClick = (q) => { setInput(q); setTimeout(...) }
handleFollowUpClick(q) ==
    /\ ui = "widget"
    /\ sent < MaxSends
    /\ q \in followUps
    /\ followUp = NoTimeout
    /\ input' = q
    /\ followUp' = [t |-> "set", input |-> input]
    /\ UNCHANGED <<fnVars, turnVars, cacheVars, streamVars,
                   ui, isTyping, pending, sent, followUps>>

\* the callback of that timer: () => { handleSend(); }
FollowUpFire ==
    /\ followUp # NoTimeout
    /\ handleSend(followUp.input)
    /\ followUp' = NoTimeout
    /\ UNCHANGED <<fnVars, turnVars, cacheVars, streamVars, ui, followUps>>

\* a request ends, with an answer or with an error: the finally clause of
\* sendMessage and of handleSend; an answer of the widget's server may carry
\* follow-up questions
RequestEnd(i, shown) ==
    /\ i \in DOMAIN pending
    /\ pending' = SubSeq(pending, 1, i - 1) \o SubSeq(pending, i + 1, Len(pending))
    /\ isTyping' = FALSE
    /\ followUps' = (IF ui = "widget" THEN followUps \cup shown ELSE followUps)
    /\ UNCHANGED <<fnVars, turnVars, cacheVars, streamVars, ui, input, sent, followUp>>

\* const resetChat = () => { setInput(""); setIsTyping(false); setMessages(...) }
resetChat ==
    /\ ui = "widget"
    /\ sent < MaxSends
    /\ input # <<>> \/ isTyping \/ followUps # {}
    /\ input' = <<>>
    /\ isTyping' = FALSE
    /\ followUps' = {}
    /\ UNCHANGED <<fnVars, turnVars, cacheVars, streamVars, ui, pending, sent, followUp>>

DoTypeText == \E text \in ClientInputs : TypeText(text)

DoFollowUpClick == \E q \in FollowUpQuestions : handleFollowUpClick(q)

DoRequestEnd ==
    \E i \in 1..MaxSends : \E shown \in SUBSET FollowUpQuestions : RequestEnd(i, shown)

ClientNext ==
    \/ DoTypeText
    \/ PressEnter
    \/ ClickSend
    \/ DoFollowUpClick
    \/ FollowUpFire
    \/ DoRequestEnd
    \/ resetChat

SpecClient == ClientInit /\ [][ClientNext]_vars

(***************************************************************************)
(* Properties of the exported functions (checked under SpecFn)             *)
(***************************************************************************)
\* what the spec calls the confirmation token: "confirm", ":", any run of
\* whitespace, then "true" or "yes", in any letter case, somewhere in q
HasConfirmToken(q) ==
    \E i \in 1..Len(q) : \E j \in (i + 8)..(Len(q) + 1) :
        /\ i + 7 <= Len(q)
        /\ SubSeq(ToLowerCase(q), i, i + 7) = <<"c","o","n","f","i","r","m",":">>
        /\ \A k \in (i + 8)..(j - 1) : q[k] \in {" ", "\t", "\n"}
        /\ \/ j + 3 <= Len(q)
              /\ SubSeq(ToLowerCase(q), j, j + 3) = <<"t","r","u","e">>
           \/ j + 2 <= Len(q)
              /\ SubSeq(ToLowerCase(q), j, j + 2) = <<"y","e","s">>

\* what the spec calls the mutating-operation suffix pattern
MutatingSuffixes ==
    { <<"i","n","s","e","r","t">>, <<"u","p","d","a","t","e">>,
      <<"d","e","l","e","t","e">>, <<"d","r","o","p">>,
      <<"w","r","i","t","e">>, <<"b","u","l","k">>,
      <<"m","e","r","g","e">>, <<"o","u","t">>,
      <<"c","r","e","a","t","e","i","n","d","e","x">>,
      <<"c","r","e","a","t","e","-","i","n","d","e","x">>,
      <<"c","r","e","a","t","e","_","i","n","d","e","x">>,
      <<"c","r","e","a","t","e"," ","i","n","d","e","x">> }

HasMutatingSuffix(name) ==
    \E w \in MutatingSuffixes :
        /\ Len(w) <= Len(name)
        /\ SubSeq(ToLowerCase(name), Len(name) - Len(w) + 1, Len(name)) = w

GateCallDone == fnCall.op = "buildToolSet" /\ fnRet # NotYet

FilterCallDone == fnCall.op = "filterTools" /\ fnRet # NotYet

\* C3: the plan filter fails open: on a non-empty visible mapping it returns a
\* non-empty mapping; an absent or empty allow list and an allow list of one
\* name that is no key of the visible mapping return the visible mapping; an
\* allow list of one key a returns exactly {a: visible[a]}.
C3_FailOpen ==
    (FilterCallDone /\ OwnKeys(fnCall.all) # {}) =>
        LET all == fnCall.all
            l == fnCall.allowList
            ret == fnRet.v
        IN /\ ~fnRet.thrown
           /\ OwnKeys(ret) # {}
           /\ (l.t = "undefined" \/ Len(l.items) = 0) => ret = all
           /\ (l.t = "array" /\ Len(l.items) = 1 /\ l.items[1] \notin OwnKeys(all))
                => ret = all
           /\ (l.t = "array" /\ Len(l.items) = 1 /\ l.items[1] \in OwnKeys(all))
                => ret = Obj([n \in {l.items[1]} |-> all.own[n]])

\* C4: every key of the mapping the plan filter returns is a key of the
\* visible mapping, with the same descriptor; planned names that are no keys
\* of the visible mapping never appear in the result.
C4_FilterSubset ==
    FilterCallDone =>
        /\ ~fnRet.thrown
        /\ \A n \in OwnKeys(fnRet.v) :
              /\ n \in OwnKeys(fnCall.all)
              /\ fnRet.v.own[n] = fnCall.all.own[n]

PlanCallDone == fnCall.op = "planTools" /\ fnRet # NotYet

\* the reply text is valid JSON whose top level is an object
ReplyIsJsonObject(text) ==
    \/ text.k = "json" /\ text.v.t = "object"

\* C5: planTools returns without throwing for every reply text; a reply that
\* is not valid JSON, or whose top level is no object, gives the empty list;
\* every name returned is a key of the supplied tool mapping, at most once.
C5_PlannerParsing ==
    PlanCallDone =>
        LET names == fnRet.v.items
        IN /\ ~fnRet.thrown
           /\ (fnCall.text.k = "prose" \/ (fnCall.text.k = "json" /\ fnCall.text.v.t # "object"))
                => names = <<>>
           /\ \A i \in DOMAIN names : names[i] \in OwnKeys(fnCall.tools)
           /\ \A i, j \in DOMAIN names : names[i] = names[j] => i = j

(***************************************************************************)
(* Properties of a turn (checked under Spec and SpecLive)                  *)
(***************************************************************************)
IsError(r) == "kind" \in DOMAIN r /\ r.kind = "error"
IsOk(r) == "kind" \in DOMAIN r /\ r.kind = "ok"

ScenarioACatalog == Obj([n \in {N_list_databases, N_drop_database} |-> ToolDef(n)])

\* C2: scenario A: with the query "list databases" and the catalog
\* {list-databases, drop-database} the visible tool set excludes
\* drop-database, and with the plan ["list-databases"] the plan filter yields
\* exactly {list-databases}.
C2_ScenarioA ==
    (query = Q_list /\ allTools = ScenarioACatalog /\ safeTools.t = "object") =>
        /\ N_drop_database \notin OwnKeys(safeTools)
        /\ (plannedToolNames = Arr(<<N_list_databases>>) /\ execTools.t = "object")
             => execTools = Obj([n \in {N_list_databases} |-> ToolDef(n)])

\* C6: when the planning generation call fails, planTools returns the empty
\* plan and the turn goes on to the plan filter and the execution call; no
\* error response comes of it.
C6_PlanFailureRecovered ==
    [][DoPlanReject =>
         /\ plannedToolNames' = Arr(<<>>)
         /\ pc' = "executing"
         /\ ~IsError(response')]_vars

\* the timeout message of the deployed variant, and the message an error
\* response carries
VariantTimeoutMsg == IF variant = "cached" THEN CachedTimeoutDetails ELSE TimeoutMsg
ErrorMessage(r) == IF "details" \in DOMAIN r THEN r.details ELSE r.error

C8_DefaultBudget ==
    /\ (timer.armed /\ timer.env = Undefined) =>
          (timer.delay >= 30000 /\ timer.delay <= 45000)
    /\ (timer.fired /\ timer.env = Undefined) => timer.firedAt >= 30000

CountCalls(kind) == Cardinality({i \in DOMAIN calls : calls[i].kind = kind})

ZeroToolCalls(res) == res.toolCalls.t # "array" \/ res.toolCalls.items = <<>>

\* C9: the execution call is re-run at most once in a turn, and exactly when
\* the query looks database-related, the first execution result has no
\* tool-call record and the filtered tool set is not empty; after the re-run
\* no further execution call is made and the response is built from the
\* re-run's result.
C9_NudgeOnce ==
    /\ [](CountCalls("execute") <= 1 /\ CountCalls("nudge") <= 1)
    /\ [][(variant # "cached" /\ pc = "executing" /\ result' # result) =>
            ((pc' = "nudging" /\ CountCalls("nudge")' = 1)
               <=> (/\ looksDbRelated(query)
                    /\ ZeroToolCalls(result')
                    /\ OwnKeys(execTools) # {}))]_vars
    /\ [][(CountCalls("nudge")' > CountCalls("nudge")) =>
            (pc = "executing" /\ result' # result)]_vars
    /\ [][pc = "nudging" =>
            /\ CountCalls("execute")' = CountCalls("execute")
            /\ CountCalls("nudge")' = CountCalls("nudge")]_vars
    /\ []((variant # "cached" /\ IsOk(response)) =>
            /\ response.toolCalls = OrEmptyArr(result.toolCalls)
            /\ response.toolResults = OrEmptyArr(result.toolResults))
    /\ [][(pc # "nudging" /\ result # Undefined) => result' = result]_vars

\* C9 witness: a turn answered after a re-run that also called no tool.
C9_Witness ==
    /\ pc = "done"
    /\ CountCalls("nudge") = 1
    /\ IsOk(response)
    /\ response.toolCalls = Arr(<<>>)

CallRank(kind) ==
    CASE kind = "plan" -> 1 [] kind = "execute" -> 2
      [] kind = "nudge" -> 3 [] kind = "narrate" -> 4

\* C10: at most one generation call of the turn is in flight at any time;
\* a call is started only when no other is in flight, in the order plan,
\* execute, nudge re-run, narration.
C10_OneCallInFlight ==
    /\ [](Cardinality(inflight) <= 1)
    /\ [](\A i, j \in DOMAIN calls :
             i < j => CallRank(calls[i].kind) < CallRank(calls[j].kind))
    /\ [][calls' # calls =>
            /\ calls' = Append(calls, calls'[Len(calls')])
            /\ inflight' = {calls'[Len(calls')]}]_vars

\* C10 witness: all four calls were made and the narration is in flight.
C10_Witness ==
    /\ Len(calls) = 4
    /\ pc = "narrating"
    /\ inflight = {Call("narrate", Obj(EmptyOwn), FALSE)}

\* C11: when the narration call of the degenerate-output guard fails, the
\* turn still answers with a success response whose text is the fallback or
\* the text it had; the guard brings about no error response.
C11_NarrationFailureRecovered ==
    [][DoNarrateReject =>
         /\ IsOk(response')
         /\ response'.result \in
               { finalText, ensureMeaningfulResponse(finalText, result.toolResults) }]_vars

EnsureCallDone == fnCall.op = "ensureMeaningfulResponse" /\ fnRet # NotYet

\* what the spec calls the low-content tokens
LowContentTokens ==
    { <<"d","o","n","e">>, <<"d","o","n","e",".">>, <<"c","o","m","p","l","e","t","e","d">>, <<"f","i","n","i","s","h","e","d">>, <<"o","k">>, <<"o","k","a","y">> }

\* the text, trimmed and case-folded, is one of the low-content tokens
IsLowContentToken(text) == Trim(ToLowerCase(text)) \in LowContentTokens

\* the text fragments of a tool-result record
TextFragments(r) ==
    { r.content[i].text : i \in { j \in DOMAIN r.content :
                                     /\ r.content[j].type = "text"
                                     /\ r.content[j].text # <<>> } }

CarriesId(fragment) == Includes(fragment, <<"\"","_","i","d","\"">>)

\* toolResults has text fragments and each carries an identifier field
AllFragmentsCarryId(trs) ==
    /\ \E i \in DOMAIN trs : TextFragments(trs[i]) # {}
    /\ \A i \in DOMAIN trs : \A f \in TextFragments(trs[i]) : CarriesId(f)

\* the text states a count of documents: that of the text fragments of one
\* of the tool results
StatesDocumentCount(text, trs) ==
    \E i \in DOMAIN trs :
        /\ Len(TextContent(trs[i].content)) > 0
        /\ Includes(text, <<"I"," ","f","o","u","n","d"," ">> \o NumberToString(Len(TextContent(trs[i].content)))
                           \o <<" ","d","o","c","u","m","e","n","t">>)

\* C12: for a final text that is a low-content token and non-empty
\* toolResults whose text fragments carry an identifier field,
\* ensureMeaningfulResponse returns a text that differs from its input and
\* states the number of documents found; with empty or absent toolResults,
\* or a text that is no low-content token, it returns its input unchanged.
C12_GuardFallback ==
    EnsureCallDone =>
        LET text == fnCall.finalText
            trs == fnCall.toolResults
            ret == fnRet.v.s
            nonEmpty == trs.t = "array" /\ Len(trs.items) > 0
        IN /\ ~fnRet.thrown
           /\ (IsLowContentToken(text) /\ nonEmpty /\ AllFragmentsCarryId(trs.items)) =>
                 (ret # text /\ StatesDocumentCount(ret, trs.items))
           /\ (~IsLowContentToken(text) \/ ~nonEmpty) => ret = text

\* C12 witness: "okay" with a record of four documents and one of a document
\* and a fragment that is no JSON gives the count of the last record.
C12_Witness ==
    /\ EnsureCallDone
    /\ fnCall.finalText = <<"o","k","a","y">>
    /\ fnCall.toolResults = Arr(<<R_docs4, R_docs2>>)
    /\ Includes(fnRet.v.s, <<"I"," ","f","o","u","n","d"," ","2"," ","d","o","c","u","m","e","n","t","s">>)

\* what the spec calls the minimality predicate: the text, trimmed and
\* case-folded, is a low-content token, or it is shorter than the threshold
IsMinimalBySpec(text) ==
    \/ IsLowContentToken(text)
    \/ Len(Trim(text)) < 20

\* the deterministic fallback built from the tool results
DeterministicFallback(trs) ==
    FallbackLoop(trs.items, 1, <<"I","'","v","e"," ","c","o","m","p","l","e","t","e","d"," ","t","h","e"," ","o","p","e","r","a","t","i","o","n","."," ">>)

\* the final text once the narration call has resolved with `text`
AfterNarration(text) == IF Len(text) > 0 THEN text ELSE finalText

\* C13: the guard uses one minimality predicate at both steps: whenever the
\* final text is still minimal (a low-content token, or shorter than 20
\* characters) after the narration step and toolResults is not empty, the
\* text of the response is the deterministic fallback built from the tool
\* results.
C13_OneMinimalityPredicate ==
    [][\A text \in Texts :
         (/\ NarrateResolve(text)
          /\ IsMinimalBySpec(AfterNarration(text))
          /\ HasItems(result.toolResults))
         => finalText' = DeterministicFallback(result.toolResults)]_vars

\* a narration call is started in this step
NarrationStarts == CountCalls("narrate")' > CountCalls("narrate")

\* C14: the narration call is made at most once in a turn, only when the
\* final text is minimal and toolResults is not empty, and with no tool
\* attached; when it resolves with empty text the final text it found is
\* the one that goes on to the fallback step.
C14_NarrationOnce ==
    /\ [](CountCalls("narrate") <= 1)
    /\ [](\A i \in DOMAIN calls :
             calls[i].kind = "narrate" => calls[i].tools = Obj(EmptyOwn))
    /\ [][NarrationStarts =>
            /\ IsMinimalBySpec(finalText')
            /\ finalText' = Trim(result'.text)
            /\ HasItems(result'.toolResults)]_vars
    /\ [][NarrateResolve(<<>>) =>
            /\ finalText' = ensureMeaningfulResponse(finalText, result.toolResults)
            /\ IsOk(response')
            /\ response'.result = finalText']_vars

\* C14 witness: a turn answered after a narration call, with the short text
\* the execution call gave.
C14_Witness ==
    /\ pc = "done"
    /\ CountCalls("narrate") = 1
    /\ IsOk(response)
    /\ Trim(result.text) = T_short
    /\ response.result = T_short

\* C15: a turn makes at most four generation calls: one planning call, and
\* at most one primary execution call, one nudge re-run and one narration
\* call.
C15_CallBound ==
    /\ Len(calls) <= 4
    /\ CountCalls("plan") <= 1
    /\ CountCalls("execute") <= 1
    /\ CountCalls("nudge") <= 1
    /\ CountCalls("narrate") <= 1
    /\ \A i \in DOMAIN calls : calls[i].kind \in {"plan", "execute", "nudge", "narrate"}

\* C15 witness: a turn answered after four generation calls.
C15_Witness ==
    /\ pc = "done"
    /\ IsOk(response)
    /\ Len(calls) = 4

\* the request fails input validation: its query is missing, no string, or
\* empty once trimmed, or the credential is not set
InvalidRequest(body, hasKey) ==
    \/ body.query.t # "string"
    \/ (body.query.t = "string" /\ Trim(body.query.s) = <<>>)
    \/ ~hasKey

\* C16: a request that fails input validation is answered at once with an
\* error response; no tool-provider session is opened and no generation call
\* is made for it.
C16_InputValidation ==
    /\ [][\A body \in Bodies, hasKey \in BOOLEAN :
            (Request(body, hasKey) /\ InvalidRequest(body, hasKey)) =>
                /\ pc' = "done"
                /\ IsError(response')
                /\ response'.status \in {400, 500}
                /\ calls' = <<>>
                /\ inflight' = {}
                /\ ~resources'
                /\ ~mcpClientCache']_vars
    /\ [][pc = "done" => (pc' = "done" /\ calls' = calls /\ resources' = resources)]_vars

\* C16 witness: a request with a query, made while the credential is not
\* set, was answered with status 500 and nothing was opened or called.
C16_Witness ==
    /\ pc = "done"
    /\ query = Q_delete
    /\ response = [status |-> 500, kind |-> "error", error |-> KeyNotSetMsg(variant)]
    /\ calls = <<>>
    /\ ~resources

(***************************************************************************)
(* Properties of the cached MCP client (checked under SpecCache)           *)
(***************************************************************************)
\* the provider sessions that are open: created and never closed
LiveSessions == {i \in DOMAIN sessions : sessions[i].closes = 0}

\* C17: when a turn returns its response, every provider session opened for
\* it that the shared cache does not hold has been closed exactly once, on
\* every exit path; no session is closed twice.
C17_SessionRelease ==
    /\ \A i \in DOMAIN sessions : sessions[i].closes <= 1
    /\ \A r \in Reqs :
          reqs[r].pc = "done" =>
              \A i \in DOMAIN sessions :
                  (sessions[i].owner = r /\ cachedClient # i) => sessions[i].closes = 1

\* C18: with the session cache, at most one provider session is open at any
\* moment; when the cached session is replaced by a new one, the session
\* cached before is open no longer.
C18_OneLiveSession ==
    /\ [](Cardinality(LiveSessions) <= 1)
    /\ [][(cachedClient # 0 /\ cachedClient' # cachedClient) =>
            cachedClient \notin LiveSessions']_vars

\* the requests whose call of getMCPClient is establishing a session
Establishing == {r \in Reqs : reqs[r].pc \in {"reading", "creating", "listing"}}

\* C19: requests that call getMCPClient while no fresh session is cached and
\* an establishment is under way share that establishment: no second
\* establishment is started beside it, so one session is created for them.
C19_SingleFlight == Cardinality(Establishing) <= 1

(***************************************************************************)
(* Properties of the exported functions, continued (checked under SpecFn)  *)
(***************************************************************************)
\* C20: for every query, with or without the confirmation token,
\* buildToolSet applied to an absent (undefined or null) or empty catalog
\* returns an empty mapping and throws nothing.
C20_AbsentCatalog ==
    (GateCallDone /\ EntriesKeys(fnCall.allTools) = {}) =>
        /\ ~fnRet.thrown
        /\ fnRet.v = Obj(EmptyOwn)

(***************************************************************************)
(* Planner call, result normalizer and response shaping                    *)
(***************************************************************************)
\* C21: planTools issues exactly one generation call per invocation, and
\* that call has an empty tool set attached: the call is made when the
\* planner is entered, none is added while it runs or after it returned.
C21_PlannerOneCall ==
    /\ [](\A i \in DOMAIN calls :
             calls[i].kind = "plan" => calls[i].tools = Obj(EmptyOwn))
    /\ []((pc = "planning" \/ plannedToolNames # Undefined) => CountCalls("plan") = 1)
    /\ [][(pc # "planning" /\ pc' = "planning") =>
            CountCalls("plan")' = CountCalls("plan") + 1]_vars
    /\ [][pc # "loading" => CountCalls("plan")' = CountCalls("plan")]_vars

\* C21 witness: the planner has returned a non-empty plan over a non-empty
\* visible set, after its one call.
C21_Witness ==
    /\ pc = "executing"
    /\ CountCalls("plan") = 1
    /\ OwnKeys(safeTools) # {}
    /\ plannedToolNames # Undefined
    /\ plannedToolNames.items # <<>>

HumanBytesCallDone == fnCall.op = "humanBytes" /\ fnRet # NotYet

\* text ends with a space and the unit of index k
EndsWithUnit(text, k) ==
    LET suffix == <<" ">> \o UNITS[k + 1]
    IN /\ Len(suffix) <= Len(text)
       /\ SubSeq(text, Len(text) - Len(suffix) + 1, Len(text)) = suffix

\* the index of the unit a rendering ends with
UnitIndexOf(text) == CHOOSE k \in 0..4 : EndsWithUnit(text, k)

\* the count b is at least 1024^k (k = 0: the unit bytes, from 0 up)
ReachesUnit(b, k) == k = 0 \/ Len(b) > k

\* a <= b, for two counts
CountLeq(a, b) ==
    \/ Len(a) < Len(b)
    \/ /\ Len(a) = Len(b)
       /\ \/ a = b
          \/ \E i \in DOMAIN a : a[i] < b[i] /\ \A j \in DOMAIN a : j > i => a[j] = b[j]

\* C24: humanBytes picks the largest 1024-based unit among bytes, KB, MB, GB,
\* TB whose threshold the count reaches (TB from 1024^4 up); it renders 0 as
\* "0.00 bytes", 1024 as "1.00 KB", 1048576 as "1.00 MB" and 1073741824 as
\* "1.00 GB"; and the unit index never decreases as the count increases.
C24_HumanBytesUnits ==
    HumanBytesCallDone =>
        LET b == fnCall.bytes
            out == fnRet.v.s
            k == UnitIndexOf(out)
        IN /\ \E u \in 0..4 : EndsWithUnit(out, u)
           /\ ReachesUnit(b, k)
           /\ \A u \in 0..4 : ReachesUnit(b, u) => u <= k
           /\ b = <<0>> => out = <<"0",".","0","0"," ","b","y","t","e","s">>
           /\ b = <<0, 1>> => out = <<"1",".","0","0"," ","K","B">>
           /\ b = <<0, 0, 1>> => out = <<"1",".","0","0"," ","M","B">>
           /\ b = <<0, 0, 0, 1>> => out = <<"1",".","0","0"," ","G","B">>
           /\ \A a \in ByteCounts :
                 CountLeq(a, b) => UnitIndexOf(humanBytes(a)) <= k

\* C24 witness: 1024^4 bytes rendered in TB.
C24_Witness ==
    /\ HumanBytesCallDone
    /\ fnCall.bytes = <<0, 0, 0, 0, 1>>
    /\ fnRet.v.s = <<"1",".","0","0"," ","T","B">>

NormalizerCallDone == fnCall.op = "formatToolResultsToNaturalLanguage" /\ fnRet # NotYet

\* the payload of a tool-result record, as the spec describes it
PayloadOf(tr) ==
    IF tr.t = "object" /\ "result" \in DOMAIN tr.own /\ tr.own.result.t # "null"
    THEN tr.own.result ELSE tr

\* C22: the result normalizer never throws: for every list of tool-result
\* records (any tool name, any payload shape, payloads that parse to JSON
\* null, numbers or strings included) it returns a string, and a payload it
\* cannot decode (here the text abc) is echoed literally in that string.
C22_NormalizerNeverThrows ==
    NormalizerCallDone =>
        /\ ~fnRet.thrown
        /\ fnRet.v.t = "string"
        /\ fnCall.results.t = "array" =>
              \A i \in DOMAIN fnCall.results.items :
                  PayloadOf(fnCall.results.items[i]) = JStr(F_abc) =>
                      Includes(fnRet.v.s, F_abc)

ListingCallDone == fnCall.op = "parseListCollections" /\ fnRet # NotYet

\* C23: parseListCollections, given a content array of fragments of the form
\* Name: "<name>", returns the names unquoted and in fragment order whatever
\* the type field of the fragments is (two fragments for orders and users
\* give orders, users); the {collections: [...]} and bare-array shapes
\* listing the same names give the same list.
C23_ListCollections ==
    ListingCallDone =>
        fnRet.v = JArr([i \in 1..Len(fnCall.names) |-> JStr(fnCall.names[i])])

\* C23 witness: the names orders and users come back from two fragments
\* whose type is not text.
C23_Witness ==
    /\ ListingCallDone
    /\ fnCall.shape = "content"
    /\ fnCall.type = <<"j","s","o","n">>
    /\ fnCall.names = <<C_orders, C_users>>
    /\ fnRet.v = JArr(<<JStr(C_orders), JStr(C_users)>>)

\* the text is blank: empty once trimmed
IsBlank(text) == Len(Trim(text)) = 0

\* C30: in the cached-client route, for every execution result that returns
\* without error the response is a success whose result text is the model's
\* text when that is not blank, otherwise the normalized summary of the tool
\* results when that is not blank, otherwise the fixed message; it is never
\* empty. When the provider session cannot be established the turn runs
\* with an empty tool set.
C30_CachedResultNeverEmpty ==
    /\ (variant = "cached" /\ result # Undefined) =>
          LET spoken == formatToolResultsToNaturalLanguage(ToolResultsOf(result), query)
          IN /\ IsOk(response)
             /\ Len(response.result) > 0
             /\ ~IsBlank(result.text) => response.result = result.text
             /\ (IsBlank(result.text) /\ ~spoken.thrown /\ ~IsBlank(spoken.v)) =>
                   response.result = spoken.v
             /\ (IsBlank(result.text) /\ ~spoken.thrown /\ IsBlank(spoken.v)) =>
                   response.result = NoResponseText
    /\ (variant = "cached" /\ ~resources /\ Len(calls) > 0) =>
          calls[1] = Call("execute", Obj(EmptyOwn), TRUE)

\* the text holds a balanced block: the opening tag, later the closing tag
HasBlock(text, open, close) ==
    IndexOf(text, open) # 0 /\ IndexOf(text, close) > IndexOf(text, open)

\* the text inside the block, without the white space around it
InsideBlock(text, open, close) ==
    Trim(SubSeq(text, IndexOf(text, open) + Len(open), IndexOf(text, close) - 1))

\* C25: when the final text holds a balanced <EXPLANATION>...</EXPLANATION>
\* block the reasoning field of the response is the text inside it; when it
\* holds a balanced <CONTENT>...</CONTENT> block the result is the text
\* inside it; when the tags are missing the reasoning is absent and the
\* whole text is the result.
C25_ExplanationSeparation ==
    (IsOk(response) /\ ~streamMode) =>
        /\ IF HasBlock(finalText, TAG_EXPLANATION_OPEN, TAG_EXPLANATION_CLOSE)
           THEN response.reasoning =
                  JStr(InsideBlock(finalText, TAG_EXPLANATION_OPEN, TAG_EXPLANATION_CLOSE))
           ELSE response.reasoning = Null
        /\ IF HasBlock(finalText, TAG_CONTENT_OPEN, TAG_CONTENT_CLOSE)
           THEN response.result = InsideBlock(finalText, TAG_CONTENT_OPEN, TAG_CONTENT_CLOSE)
           ELSE response.result = finalText

EventTypes(evs) == [i \in DOMAIN evs |-> evs[i].type]

\* the deltas of the content events, concatenated
RECURSIVE ContentOf(_)
ContentOf(evs) ==
    IF Len(evs) = 0 THEN <<>>
    ELSE (IF evs[1].type = "content" THEN evs[1].delta ELSE <<>>) \o ContentOf(Tail(evs))

EventRank(type) ==
    CASE type = "content" -> 1 [] type = "reasoning" -> 2 [] type = "meta" -> 3
      [] type = "done" -> 4 [] type = "error" -> 5

CountEvents(type) == Cardinality({i \in DOMAIN events : events[i].type = type})

C26_EndToEndSuppression ==
    \A i \in DOMAIN calls :
        (variant # "cached" /\ calls[i].kind \in {"execute", "nudge"}
           /\ ~HasConfirmToken(query)) =>
            \A n \in OwnKeys(calls[i].tools) :
                /\ ~HasMutatingSuffix(n)
                /\ n \in OwnKeys(safeTools)

\* C27: a turn whose nudge re-run or narration call is under way eventually
\* returns its response and releases its provider session, even if that
\* call never resolves: the call is bounded by the timeout.
C27_EveryCallBounded ==
    (pc \in {"nudging", "narrating"}) ~> (pc = "done")

(***************************************************************************)
(* Properties of the chat front-ends (checked under SpecClient)            *)
(***************************************************************************)
\* C29: the front-end never has two chatbot requests in flight at the same
\* time (a send attempted while a request awaits its response is ignored),
\* and the loading/typing flag is false once no request is in flight
C29_SingleInFlight ==
    /\ Len(pending) <= 1
    /\ (pending = <<>>) => ~isTyping

====
